---- MODULE Spec2Model ----
(***************************************************************************)
(* A model of pubmed_parser/medline_parser.py: the extractors that turn a  *)
(* MEDLINE/PubMed citation tree into flat records.                         *)
(*                                                                         *)
(* Representation.                                                         *)
(*  - A Python str is a sequence of one-character strings, so that strip,  *)
(*    join and concatenation are computed and not assumed.                 *)
(*  - An optional leaf element is held by its .text: Absent when find()    *)
(*    returns None (no such element), None when the element is there but   *)
(*    has no text (lxml gives .text = None), else the text.                *)
(*  - An optional attribute is Absent or its value.                        *)
(*  - An element with children is a record with a `present` flag and one   *)
(*    field per child; a repeated child is a sequence in document order.   *)
(*  - A call yields Return(v) or Raise (an uncaught Python exception).     *)
(***************************************************************************)
EXTENDS Integers, Sequences, FiniteSets, TLC

VARIABLES
    tree,            \* the parsed document handed to the drivers
    pubmed_article,  \* one citation node handed to the per-citation extractors
    date_xml,        \* one date-bearing node handed to get_date_info
    config,          \* the keyword switches of parse_medline_xml
    called,          \* the operation that has run ("none" before any)
    result           \* what it returned, or Raise

vars == <<tree, pubmed_article, date_xml, config, called, result>>

----------------------------------------------------------------------------
(* Bounds of the input space *)

MaxELocationIDs == 2
MaxArticleIds == 1
MaxHeadings == 2
MaxQualifiers == 2
MaxGrants == 2
MaxCitations == 2
MaxDeletes == 2
MaxHistoryDates == 2
MaxPersons == 2
MaxDataBanks == 2
MaxReferences == 2
MaxConcepts == 2
MaxTerms == 2

----------------------------------------------------------------------------
(* Python values *)

Absent == <<"Absent">>
None == <<"None">>
NaN == <<"NaN">>
EmptyStr == <<>>

Return(v) == [ok |-> TRUE, val |-> v]
Raise == [ok |-> FALSE, val |-> <<>>]

Whitespace == {" ", "\n"}

\* s.lstrip()
RECURSIVE lstrip(_)
lstrip(s) == IF s # <<>> /\ Head(s) \in Whitespace THEN lstrip(Tail(s)) ELSE s

\* s.rstrip()
RECURSIVE rstrip(_)
rstrip(s) ==
    IF s # <<>> /\ s[Len(s)] \in Whitespace
    THEN rstrip(SubSeq(s, 1, Len(s) - 1))
    ELSE s

\* s.strip()
strip(s) == rstrip(lstrip(s))

\* x or d, for x a str or None
Or(x, d) == IF x = None \/ x = <<>> THEN d ELSE x

\* sep.join(list)
RECURSIVE join(_, _)
join(sep, list) ==
    IF list = <<>> THEN <<>>
    ELSE IF Len(list) = 1 THEN list[1]
    ELSE list[1] \o sep \o join(sep, Tail(list))

\* list(chain(*lists)): the concatenation of the lists
RECURSIVE Flatten(_)
Flatten(lists) == IF lists = <<>> THEN <<>> ELSE Head(lists) \o Flatten(Tail(lists))

\* attrib.get(name): None for an attribute that is not there
AttrGet(a) == IF a = Absent THEN None ELSE a

\* attrib.get(name, default)
AttrGetDefault(a, d) == IF a = Absent THEN d ELSE a

\* All sequences over S of length at most n
SeqUpTo(S, n) == UNION {[1..k -> S] : k \in 0..n}

\* An lxml element held as a value: not a str, whatever its text
Element(text) == <<"Element", text>>

\* s.replace(old, ""), for old not empty
RECURSIVE replace(_, _)
replace(s, old) ==
    IF Len(s) < Len(old) THEN s
    ELSE IF SubSeq(s, 1, Len(old)) = old
    THEN replace(SubSeq(s, Len(old) + 1, Len(s)), old)
    ELSE <<Head(s)>> \o replace(Tail(s), old)

\* Attribute values
DOI == <<"d", "o", "i">>
PII == <<"p", "i", "i">>
PMIDTYPE == <<"p", "m", "i", "d">>

----------------------------------------------------------------------------
(* Elements that are not in the tree *)

NoDate ==
    [present |-> FALSE, Year |-> Absent, Month |-> Absent, Day |-> Absent,
     Hour |-> Absent, Minute |-> Absent, MedlineDate |-> Absent]

NoJournalIssue ==
    [present |-> FALSE, Volume |-> Absent, Issue |-> Absent, PubDate |-> NoDate]

NoJournal == [present |-> FALSE, Title |-> <<>>, JournalIssue |-> NoJournalIssue]

NoGrantList == [present |-> FALSE, Grant |-> <<>>]

NoDataBankList == [present |-> FALSE, DataBank |-> <<>>]

NoPublicationTypeList == [present |-> FALSE, PublicationType |-> <<>>]

NoAccessionNumberList == [present |-> FALSE, AccessionNumber |-> <<>>]

\* An element with mixed content: its own text, and inline children that
\* each have a text and a tail
NoMixedElement == [present |-> FALSE, text |-> None, children |-> <<>>]

NoAbstract ==
    [present |-> FALSE, text |-> None, children |-> <<>>, AbstractText |-> <<>>]

NoArticle ==
    [present |-> FALSE, ELocationID |-> <<>>, Journal |-> NoJournal,
     GrantList |-> NoGrantList, AuthorList |-> <<>>,
     DataBankList |-> NoDataBankList, Language |-> <<>>, MedlinePgn |-> Absent,
     PublicationTypeList |-> NoPublicationTypeList,
     ArticleTitle |-> NoMixedElement, VernacularTitle |-> NoMixedElement,
     Abstract |-> NoAbstract]

NoMeshHeadingList == [present |-> FALSE, MeshHeading |-> <<>>]

NoInvestigatorList == [present |-> FALSE, Investigator |-> <<>>]

NoKeywordList == [present |-> FALSE, Keyword |-> <<>>]

NoChemicalList == [present |-> FALSE, Chemical |-> <<>>]

NoNameOfSubstance == [present |-> FALSE, UI |-> Absent, text |-> Absent]

NoMedlineJournalInfo ==
    [present |-> FALSE, MedlineTA |-> Absent, NlmUniqueID |-> Absent,
     ISSNLinking |-> Absent, Country |-> Absent]

NoPersonalNameSubjectList == [present |-> FALSE, PersonalNameSubject |-> <<>>]

NoSupplMeshList == [present |-> FALSE, SupplMeshName |-> <<>>]

NoMedlineCitation ==
    [present |-> FALSE, PMID |-> Absent, Article |-> NoArticle,
     MeshHeadingList |-> NoMeshHeadingList,
     DateCompleted |-> NoDate, DateRevised |-> NoDate,
     InvestigatorList |-> NoInvestigatorList,
     PersonalNameSubjectList |-> NoPersonalNameSubjectList,
     SupplMeshList |-> NoSupplMeshList,
     KeywordList |-> NoKeywordList, ChemicalList |-> NoChemicalList,
     OtherID |-> <<>>, MedlineJournalInfo |-> NoMedlineJournalInfo,
     CoiStatement |-> Absent]

NoArticleIdList == [present |-> FALSE, ArticleId |-> <<>>]

NoHistory == [present |-> FALSE, PubMedPubDate |-> <<>>]

NoReferenceList == [present |-> FALSE, Reference |-> <<>>]

NoPubmedData ==
    [present |-> FALSE, PublicationStatus |-> Absent,
     ArticleIdList |-> NoArticleIdList, History |-> NoHistory,
     ReferenceList |-> NoReferenceList]

\* article_ids.find('ArticleId[@IdType="t"]'): the first entry of that type
RECURSIVE FindArticleId(_, _)
FindArticleId(ids, t) ==
    IF ids = <<>> THEN Absent
    ELSE IF Head(ids).IdType = t THEN Head(ids).text
    ELSE FindArticleId(Tail(ids), t)

\* pubmed_article.find("PubmedData/ArticleIdList")
FindArticleIdList(pa) ==
    IF pa.PubmedData.present /\ pa.PubmedData.ArticleIdList.present
    THEN pa.PubmedData.ArticleIdList
    ELSE NoArticleIdList

----------------------------------------------------------------------------
(* parse_pmid *)

parse_pmid(pa) ==
    LET medline == pa.MedlineCitation IN
    IF ~medline.present THEN Raise
    ELSE IF medline.PMID # Absent THEN Return(medline.PMID)
    ELSE LET article_ids == FindArticleIdList(pa) IN
         IF article_ids.present
         THEN LET pmid == FindArticleId(article_ids.ArticleId, PMIDTYPE) IN
              IF pmid # Absent
              THEN IF pmid # None THEN Return(strip(pmid)) ELSE Return(EmptyStr)
              ELSE Return(EmptyStr)
         ELSE Return(EmptyStr)

----------------------------------------------------------------------------
(* parse_doi *)

\* The loop of lines 66-67: doi is assigned afresh for every ELocationID.
\* e.text.strip() is evaluated only for an element typed "doi".
RECURSIVE parse_doi_loop(_, _, _)
parse_doi_loop(elocation_ids, i, doi) ==
    IF i > Len(elocation_ids) THEN Return(doi)
    ELSE LET e == elocation_ids[i] IN
         IF AttrGetDefault(e.EIdType, EmptyStr) = DOI
         THEN IF e.text = None THEN Raise
              ELSE parse_doi_loop(elocation_ids, i + 1, Or(strip(e.text), EmptyStr))
         ELSE parse_doi_loop(elocation_ids, i + 1, EmptyStr)

parse_doi(pa) ==
    LET medline == pa.MedlineCitation IN
    IF ~medline.present THEN Raise
    ELSE LET article == medline.Article IN
    IF ~article.present THEN Raise
    ELSE LET elocation_ids == article.ELocationID IN
    IF Len(elocation_ids) > 0
    THEN parse_doi_loop(elocation_ids, 1, EmptyStr)
    ELSE LET article_ids == FindArticleIdList(pa) IN
         IF article_ids.present
         THEN LET doi == FindArticleId(article_ids.ArticleId, DOI) IN
              IF doi # Absent
              THEN IF doi # None THEN Return(strip(doi)) ELSE Return(EmptyStr)
              ELSE Return(EmptyStr)
         ELSE Return(EmptyStr)

----------------------------------------------------------------------------
(* parse_elocation_ids *)

\* Mutant: the loop never records that a doi-typed ELocationID was seen.
RECURSIVE parse_elocation_ids_loop_NoFlag(_, _, _, _)
parse_elocation_ids_loop_NoFlag(elocation_ids_xml, i, found_doi, elocation_ids) ==
    IF i > Len(elocation_ids_xml)
    THEN Return([found_doi |-> found_doi, elocation_ids |-> elocation_ids])
    ELSE LET e == elocation_ids_xml[i]
             elocation_id_type == AttrGet(e.EIdType)
         IN  IF e.text = None THEN Raise
             ELSE parse_elocation_ids_loop_NoFlag(
                      elocation_ids_xml, i + 1, found_doi,
                      Append(elocation_ids,
                             [type |-> elocation_id_type,
                              ELocationID |-> strip(e.text)]))

\* The loop of lines 103-107; e.text.strip() raises on an element without text.
RECURSIVE parse_elocation_ids_loop(_, _, _, _)
parse_elocation_ids_loop(elocation_ids_xml, i, found_doi, elocation_ids) ==
    IF i > Len(elocation_ids_xml)
    THEN Return([found_doi |-> found_doi, elocation_ids |-> elocation_ids])
    ELSE LET e == elocation_ids_xml[i]
             elocation_id_type == AttrGet(e.EIdType)
         IN  IF e.text = None THEN Raise
             ELSE parse_elocation_ids_loop(
                      elocation_ids_xml, i + 1,
                      found_doi \/ elocation_id_type = DOI,
                      Append(elocation_ids,
                             [type |-> elocation_id_type,
                              ELocationID |-> strip(e.text)]))

parse_elocation_ids(pa) ==
    LET medline == pa.MedlineCitation IN
    IF ~medline.present THEN Raise
    ELSE LET article == medline.Article IN
    IF ~article.present THEN Raise
    ELSE LET looped == parse_elocation_ids_loop(article.ELocationID, 1, FALSE, <<>>) IN
    IF ~looped.ok THEN Raise
    ELSE LET elocation_ids == looped.val.elocation_ids IN
    IF ~looped.val.found_doi
    THEN LET article_ids == FindArticleIdList(pa) IN
         IF article_ids.present
         THEN LET doi == FindArticleId(article_ids.ArticleId, DOI) IN
              IF doi # Absent
              THEN IF doi = None THEN Raise
                   ELSE IF strip(doi) # EmptyStr
                        THEN Return(Append(elocation_ids,
                                 [type |-> DOI, ELocationID |-> strip(doi)]))
                        ELSE Return(elocation_ids)
              ELSE Return(elocation_ids)
         ELSE Return(elocation_ids)
    ELSE Return(elocation_ids)

----------------------------------------------------------------------------
(* parse_mesh_info *)

\* x in list
InList(list, x) == \E i \in 1..Len(list) : list[i] = x

\* The "*" that marks a major topic: attrib.get("MajorTopicYN", "N") == "Y"
IsMajor(node) == AttrGetDefault(node.MajorTopicYN, <<"N">>) = <<"Y">>
Star(node) == IF IsMajor(node) THEN <<"*">> ELSE EmptyStr

\* Mutant: a full term is starred by the heading's flag, not the qualifier's.
RECURSIVE mesh_subheading_loop_HeadingStar(_, _, _, _)
mesh_subheading_loop_HeadingStar(acc, mesh_term, subheadings, i) ==
    IF i > Len(subheadings) THEN Return(acc)
    ELSE LET subheading == subheadings[i] IN
         IF subheading.text = None THEN Raise
         ELSE LET full == AttrGetDefault(mesh_term.UI, EmptyStr) \o <<"/">>
                          \o AttrGetDefault(subheading.UI, EmptyStr) \o <<":">>
                          \o mesh_term.text \o <<"/">> \o subheading.text
                          \o Star(mesh_term)
              IN  mesh_subheading_loop_HeadingStar(
                      [acc EXCEPT !.mesh_full_terms_list = Append(@, full)],
                      mesh_term, subheadings, i + 1)

\* The loop over the qualifiers of one heading, lines 194-211.
\* Concatenating a str with a text of None raises TypeError.
RECURSIVE mesh_subheading_loop(_, _, _, _)
mesh_subheading_loop(acc, mesh_term, subheadings, i) ==
    IF i > Len(subheadings) THEN Return(acc)
    ELSE LET subheading == subheadings[i] IN
         IF subheading.text = None THEN Raise
         ELSE LET subheading_text ==
                      AttrGetDefault(subheading.UI, EmptyStr) \o <<":">> \o subheading.text
                  subs == IF ~InList(acc.mesh_subheadings_list, subheading_text)
                          THEN Append(acc.mesh_subheadings_list, subheading_text)
                          ELSE acc.mesh_subheadings_list
                  majors == IF IsMajor(subheading)
                               /\ ~InList(acc.mesh_major_topics_list, subheading_text)
                            THEN Append(acc.mesh_major_topics_list, subheading_text)
                            ELSE acc.mesh_major_topics_list
                  full == AttrGetDefault(mesh_term.UI, EmptyStr) \o <<"/">>
                          \o AttrGetDefault(subheading.UI, EmptyStr) \o <<":">>
                          \o mesh_term.text \o <<"/">> \o subheading.text
                          \o Star(subheading)
              IN  mesh_subheading_loop(
                      [acc EXCEPT !.mesh_subheadings_list = subs,
                                  !.mesh_major_topics_list = majors,
                                  !.mesh_full_terms_list = Append(@, full)],
                      mesh_term, subheadings, i + 1)

\* One pass of the loop over the headings, lines 183-225
mesh_heading_step(acc, mesh_heading) ==
    LET mesh_term == mesh_heading.DescriptorName
        subheadings == mesh_heading.QualifierName
    IN  IF mesh_term.text = None THEN Raise
        ELSE LET term == AttrGetDefault(mesh_term.UI, EmptyStr) \o <<":">> \o mesh_term.text
                 acc1 == [acc EXCEPT !.mesh_terms_list = Append(@, term)]
             IN  IF Len(subheadings) > 0
                 THEN mesh_subheading_loop(acc1, mesh_term, subheadings, 1)
                 ELSE Return(
                        [acc1 EXCEPT
                           !.mesh_major_topics_list =
                               IF IsMajor(mesh_term) THEN Append(@, term) ELSE @,
                           !.mesh_full_terms_list = Append(@, term \o Star(mesh_term))])

RECURSIVE mesh_heading_loop(_, _, _)
mesh_heading_loop(acc, headings, i) ==
    IF i > Len(headings) THEN Return(acc)
    ELSE LET stepped == mesh_heading_step(acc, headings[i]) IN
         IF ~stepped.ok THEN Raise
         ELSE mesh_heading_loop(stepped.val, headings, i + 1)

parse_mesh_info(medline) ==
    IF medline.MeshHeadingList.present
    THEN LET looped == mesh_heading_loop(
                 [mesh_terms_list |-> <<>>, mesh_subheadings_list |-> <<>>,
                  mesh_major_topics_list |-> <<>>, mesh_full_terms_list |-> <<>>],
                 medline.MeshHeadingList.MeshHeading, 1)
         IN  IF ~looped.ok THEN Raise
             ELSE Return(
                    [mesh_terms |-> join(<<";", " ">>, looped.val.mesh_terms_list),
                     mesh_subheadings |-> join(<<";", " ">>, looped.val.mesh_subheadings_list),
                     mesh_major_topics |-> join(<<";", " ">>, looped.val.mesh_major_topics_list),
                     mesh_full_terms |-> join(<<";", " ">>, looped.val.mesh_full_terms_list)])
    ELSE Return([mesh_terms |-> EmptyStr, mesh_subheadings |-> EmptyStr,
                 mesh_major_topics |-> EmptyStr, mesh_full_terms |-> EmptyStr])

----------------------------------------------------------------------------
(* get_date_info, with the token formatter of pubmed_parser.utils *)

Digits == {"0", "1", "2", "3", "4", "5", "6", "7", "8", "9"}

DigitVal(c) ==
    CASE c = "0" -> 0 [] c = "1" -> 1 [] c = "2" -> 2 [] c = "3" -> 3 [] c = "4" -> 4
      [] c = "5" -> 5 [] c = "6" -> 6 [] c = "7" -> 7 [] c = "8" -> 8 [] c = "9" -> 9

DigitChar(n) == <<"0", "1", "2", "3", "4", "5", "6", "7", "8", "9">>[n + 1]

\* s.isdigit()
isdigit(s) == s # <<>> /\ \A i \in 1..Len(s) : s[i] \in Digits

\* int(s) for a string of digits
RECURSIVE int(_)
int(s) == IF s = <<>> THEN 0 ELSE 10 * int(SubSeq(s, 1, Len(s) - 1)) + DigitVal(s[Len(s)])

\* str(n) for n >= 0
RECURSIVE str(_)
str(n) == IF n < 10 THEN <<DigitChar(n)>> ELSE str(n \div 10) \o <<DigitChar(n % 10)>>

MonthAbbr ==
    << <<"J", "a", "n">>, <<"F", "e", "b">>, <<"M", "a", "r">>, <<"A", "p", "r">>,
       <<"M", "a", "y">>, <<"J", "u", "n">>, <<"J", "u", "l">>, <<"A", "u", "g">>,
       <<"S", "e", "p">>, <<"O", "c", "t">>, <<"N", "o", "v">>, <<"D", "e", "c">> >>

\* The shared token formatter: a month abbreviation becomes its two-digit
\* number, a numeric string is zero-padded to two digits, anything else has
\* no rendering (None).
month_or_day_formater(month_or_day) ==
    IF \E m \in 1..12 : MonthAbbr[m] = month_or_day
    THEN LET m == CHOOSE k \in 1..12 : MonthAbbr[k] = month_or_day
         IN  (IF m < 10 THEN <<"0">> ELSE EmptyStr) \o str(m)
    ELSE IF isdigit(strip(month_or_day))
    THEN LET n == int(strip(month_or_day))
         IN  (IF n < 10 THEN <<"0">> ELSE EmptyStr) \o str(n)
    ELSE None

\* Mutant: the rightmost run of four digits is taken.
FirstFourDigits_LastRun(text) ==
    LET starts == {i \in 1..(Len(text) - 3) : \A k \in 0..3 : text[i + k] \in Digits}
    IN  IF starts = {} THEN EmptyStr
        ELSE LET i == CHOOSE m \in starts : \A x \in starts : m >= x
             IN  SubSeq(text, i, i + 3)

\* re.findall(r"\d{4}", text)[0]: the leftmost run of four digits ("" if none)
FirstFourDigits(text) ==
    LET starts == {i \in 1..(Len(text) - 3) : \A k \in 0..3 : text[i + k] \in Digits}
    IN  IF starts = {} THEN EmptyStr
        ELSE LET i == CHOOSE m \in starts : \A x \in starts : m <= x
             IN  SubSeq(text, i, i + 3)

\* filter(None, list): the truthy entries
FilterNone(list) == SelectSeq(list, LAMBDA x : x # None /\ x # EmptyStr)

\* Mutant: the day is left out of the rendered date.
get_date_info_NoDay(d, year_info_only, parse_time) ==
    IF ~d.present THEN Raise
    ELSE
    LET has_year == d.Year # Absent
        in_month == has_year /\ ~year_info_only /\ d.Month # Absent
        in_hour == in_month /\ d.Day # Absent /\ d.Hour # Absent
        in_minute == in_hour /\ d.Minute # Absent
        month == IF in_month THEN month_or_day_formater(d.Month) ELSE None
        hour == IF in_hour THEN month_or_day_formater(d.Hour) ELSE None
        minute == IF in_minute THEN month_or_day_formater(d.Minute) ELSE None
        year == IF has_year THEN d.Year
                ELSE IF d.MedlineDate # Absent THEN FirstFourDigits(d.MedlineDate)
                ELSE EmptyStr
    IN  IF ~has_year /\ d.MedlineDate = None THEN Raise
        ELSE IF year_info_only \/ month = None THEN Return(year)
        ELSE LET date == join(<<"-">>, FilterNone(<<year, month>>)) IN
             IF parse_time /\ hour # None
             THEN Return(date \o <<" ">> \o join(<<":">>, FilterNone(<<hour, minute>>)))
             ELSE Return(date)

\* Mutant: the hour is consulted whenever there is a month, day or no day.
get_date_info_HourWithoutDay(d, year_info_only, parse_time) ==
    IF ~d.present THEN Raise
    ELSE
    LET has_year == d.Year # Absent
        in_month == has_year /\ ~year_info_only /\ d.Month # Absent
        in_day == in_month /\ d.Day # Absent
        in_hour == in_month /\ d.Hour # Absent
        in_minute == in_hour /\ d.Minute # Absent
        month == IF in_month THEN month_or_day_formater(d.Month) ELSE None
        day == IF in_day THEN month_or_day_formater(d.Day) ELSE None
        hour == IF in_hour THEN month_or_day_formater(d.Hour) ELSE None
        minute == IF in_minute THEN month_or_day_formater(d.Minute) ELSE None
        year == IF has_year THEN d.Year
                ELSE IF d.MedlineDate # Absent THEN FirstFourDigits(d.MedlineDate)
                ELSE EmptyStr
    IN  IF ~has_year /\ d.MedlineDate = None THEN Raise
        ELSE IF year_info_only \/ month = None THEN Return(year)
        ELSE LET date == join(<<"-">>, FilterNone(<<year, month, day>>)) IN
             IF parse_time /\ hour # None
             THEN Return(date \o <<" ">> \o join(<<":">>, FilterNone(<<hour, minute>>)))
             ELSE Return(date)

get_date_info(d, year_info_only, parse_time) ==
    IF ~d.present THEN Raise
    ELSE
    LET has_year == d.Year # Absent
        in_month == has_year /\ ~year_info_only /\ d.Month # Absent
        in_day == in_month /\ d.Day # Absent
        in_hour == in_day /\ d.Hour # Absent
        in_minute == in_hour /\ d.Minute # Absent
        month == IF in_month THEN month_or_day_formater(d.Month) ELSE None
        day == IF in_day THEN month_or_day_formater(d.Day) ELSE None
        hour == IF in_hour THEN month_or_day_formater(d.Hour) ELSE None
        minute == IF in_minute THEN month_or_day_formater(d.Minute) ELSE None
        year == IF has_year THEN d.Year
                ELSE IF d.MedlineDate # Absent THEN FirstFourDigits(d.MedlineDate)
                ELSE EmptyStr
    IN  IF ~has_year /\ d.MedlineDate = None THEN Raise
        ELSE IF year_info_only \/ month = None THEN Return(year)
        ELSE LET date == join(<<"-">>, FilterNone(<<year, month, day>>)) IN
             IF parse_time /\ hour # None
             THEN Return(date \o <<" ">> \o join(<<":">>, FilterNone(<<hour, minute>>)))
             ELSE Return(date)

----------------------------------------------------------------------------
(* parse_grant_id *)

\* The text of an optional child of a Grant, "" when the child is not there
GrantField(text) == IF text # Absent THEN text ELSE EmptyStr

parse_grant_id(pa) ==
    LET medline == pa.MedlineCitation IN
    IF ~medline.present THEN Raise
    ELSE LET article == medline.Article IN
    IF ~article.present THEN Raise
    ELSE LET pmid == parse_pmid(pa)
             grants == article.GrantList
         IN  IF grants.present
             THEN Return([i \in 1..Len(grants.Grant) |->
                            [pmid |-> pmid.val,
                             grant_id |-> GrantField(grants.Grant[i].GrantID),
                             grant_acronym |-> GrantField(grants.Grant[i].Acronym),
                             country |-> GrantField(grants.Grant[i].Country),
                             agency |-> GrantField(grants.Grant[i].Agency)]])
             ELSE Return(<<>>)

----------------------------------------------------------------------------
(* date_extractor *)

\* journal.xpath("JournalIssue")[0] raises IndexError without a JournalIssue;
\* without a PubDate, get_date_info is handed None and raises.
date_extractor(journal, year_info_only) ==
    IF ~journal.JournalIssue.present THEN Raise
    ELSE get_date_info(journal.JournalIssue.PubDate, year_info_only, FALSE)

----------------------------------------------------------------------------
(* parse_pubmed_history_dates, parse_completion_date, parse_modification_date *)

\* Mutant: the history dates are read in full whatever year_info_only says.
parse_pubmed_history_dates_FullDates(pa, year_info_only, parse_time) ==
    IF pa.PubmedData.present /\ pa.PubmedData.History.present
    THEN LET pubmed_history == pa.PubmedData.History.PubMedPubDate
             pub_date == [i \in 1..Len(pubmed_history) |->
                            get_date_info(pubmed_history[i], FALSE, parse_time)]
         IN  IF \E i \in 1..Len(pubmed_history) : ~pub_date[i].ok THEN Raise
             ELSE Return([i \in 1..Len(pubmed_history) |->
                            [status |-> AttrGet(pubmed_history[i].PubStatus),
                             date |-> pub_date[i].val]])
    ELSE Return(<<>>)

\* Mutant: the completion date is read with the time.
parse_completion_date_WithTime(medline, year_info_only) ==
    IF medline.DateCompleted.present
    THEN get_date_info(medline.DateCompleted, year_info_only, TRUE)
    ELSE Return(EmptyStr)

\* The loop of lines 719-722 over the PubMedPubDate elements
parse_pubmed_history_dates(pa, year_info_only, parse_time) ==
    IF pa.PubmedData.present /\ pa.PubmedData.History.present
    THEN LET pubmed_history == pa.PubmedData.History.PubMedPubDate
             pub_date == [i \in 1..Len(pubmed_history) |->
                            get_date_info(pubmed_history[i], year_info_only, parse_time)]
         IN  IF \E i \in 1..Len(pubmed_history) : ~pub_date[i].ok THEN Raise
             ELSE Return([i \in 1..Len(pubmed_history) |->
                            [status |-> AttrGet(pubmed_history[i].PubStatus),
                             date |-> pub_date[i].val]])
    ELSE Return(<<>>)

parse_completion_date(medline, year_info_only) ==
    IF medline.DateCompleted.present
    THEN get_date_info(medline.DateCompleted, year_info_only, FALSE)
    ELSE Return(EmptyStr)

parse_modification_date(medline, year_info_only) ==
    IF medline.DateRevised.present
    THEN get_date_info(medline.DateRevised, year_info_only, FALSE)
    ELSE Return(EmptyStr)

----------------------------------------------------------------------------
(* parse_author_affiliation, parse_investigators_list,                     *)
(* parse_personal_subject_names_list                                       *)

\* (x.text or "").strip() or "" for a child that is there, "" for one that is not
NameField(leaf) ==
    IF leaf # Absent THEN Or(strip(Or(leaf, EmptyStr)), EmptyStr) ELSE EmptyStr

\* The sentence that lines 506-509 take out of an affiliation
Boilerplate ==
    <<"F", "o", "r", " ", "a", " ", "f", "u", "l", "l", " ", "l", "i",
       "s", "t", " ", "o", "f", " ", "t", "h", "e", " ", "a", "u", "t",
       "h", "o", "r", "s", "'", " ", "a", "f", "f", "i", "l", "i", "a",
       "t", "i", "o", "n", "s", " ", "p", "l", "e", "a", "s", "e", " ",
       "s", "e", "e", " ", "t", "h", "e", " ", "A", "c", "k", "n", "o",
       "w", "l", "e", "d", "g", "e", "m", "e", "n", "t", "s", " ", "s",
       "e", "c", "t", "i", "o", "n", ".">>

\* Lines 504-511
AffiliationField(leaf) ==
    IF leaf # Absent THEN replace(Or(leaf, EmptyStr), Boilerplate) ELSE EmptyStr

\* One entry of authors, lines 477-525
AuthorEntry(author, authors_type) ==
    [lastname |-> NameField(author.LastName),
     forename |-> NameField(author.ForeName),
     initials |-> NameField(author.Initials),
     suffix |-> NameField(author.Suffix),
     author_type |-> authors_type,
     identifier_type |->
        IF author.Identifier.present
        THEN Or(strip(Or(AttrGetDefault(author.Identifier.Source, EmptyStr), EmptyStr)),
                EmptyStr)
        ELSE EmptyStr,
     identifier |->
        IF author.Identifier.present
        THEN Or(strip(Or(author.Identifier.text, EmptyStr)), EmptyStr)
        ELSE EmptyStr,
     corporate |-> NameField(author.CollectiveName),
     affiliation |-> AffiliationField(author.Affiliation)]

AuthorsType == <<"a", "u", "t", "h", "o", "r", "s">>

parse_author_affiliation(medline) ==
    IF medline.Article.present
    THEN LET lists == medline.Article.AuthorList
         IN  Return(Flatten([l \in 1..Len(lists) |->
                               [i \in 1..Len(lists[l].Author) |->
                                  AuthorEntry(lists[l].Author[i],
                                              AttrGetDefault(lists[l].Type, AuthorsType))]]))
    ELSE Return(<<>>)

\* One entry of investigators, lines 806-824
PersonEntry(person) ==
    [lastname |-> NameField(person.LastName),
     forename |-> NameField(person.ForeName),
     initials |-> NameField(person.Initials),
     suffix |-> NameField(person.Suffix)]

parse_investigators_list(medline) ==
    IF medline.InvestigatorList.present
    THEN LET investigators_list == medline.InvestigatorList.Investigator
         IN  Return([i \in 1..Len(investigators_list) |->
                       PersonEntry(investigators_list[i])])
    ELSE Return(<<>>)

\* Mutant: append takes the dict as a child of the element.
append_dict_Attached(element, entry) ==
    [raised |-> FALSE, element |-> [appended |-> <<entry>>] @@ element]

\* _Element.append(entry) for an entry that is a dict, line 894: lxml takes
\* an element only and raises TypeError before it touches the element
append_dict(element, entry) ==
    [raised |-> TRUE, element |-> element]

\* Line 894 calls append on the PersonalNameSubject element, with a dict:
\* lxml raises TypeError, and nothing is ever put into the list.
parse_personal_subject_names_list(medline) ==
    LET names == medline.PersonalNameSubjectList.PersonalNameSubject IN
    IF /\ medline.PersonalNameSubjectList.present
       /\ \E i \in 1..Len(names) : append_dict(names[i], PersonEntry(names[i])).raised
    THEN Raise
    ELSE Return(<<>>)

\* The MedlineCitation element after parse_personal_subject_names_list: the
\* loop of lines 877-901 calls append on the entries in turn, up to the
\* first call that raises
RECURSIVE personal_subject_names_loop_after(_, _)
personal_subject_names_loop_after(names, i) ==
    IF i > Len(names) THEN names
    ELSE LET appended == append_dict(names[i], PersonEntry(names[i])) IN
         IF appended.raised THEN [names EXCEPT ![i] = appended.element]
         ELSE personal_subject_names_loop_after([names EXCEPT ![i] = appended.element],
                                                i + 1)

medline_after_parse_personal_subject_names_list(medline) ==
    IF medline.PersonalNameSubjectList.present
    THEN [medline EXCEPT !.PersonalNameSubjectList.PersonalNameSubject =
                            personal_subject_names_loop_after(@, 1)]
    ELSE medline

----------------------------------------------------------------------------
(* parse_databank_list, parse_supplementary_concepts_list, parse_references *)

\* `if element:` for an lxml element or None: true when it is there and has
\* children
Truthy(element, children) == element.present /\ children # <<>>

\* One entry of databank_list, lines 848-857: the name is the element that
\* find("DataBankName") returned (None when there is none), not its text
DataBankEntry(databank_xml) ==
    [name |-> IF databank_xml.DataBankName # Absent
              THEN Element(databank_xml.DataBankName) ELSE None,
     accession_numbers |->
        IF Truthy(databank_xml.AccessionNumberList,
                  databank_xml.AccessionNumberList.AccessionNumber)
        THEN databank_xml.AccessionNumberList.AccessionNumber
        ELSE <<>>]

parse_databank_list(medline) ==
    LET article == medline.Article IN
    IF ~article.present THEN Raise
    ELSE IF Truthy(article.DataBankList, article.DataBankList.DataBank)
    THEN Return([i \in 1..Len(article.DataBankList.DataBank) |->
                   DataBankEntry(article.DataBankList.DataBank[i])])
    ELSE Return(<<>>)

parse_supplementary_concepts_list(medline) ==
    IF medline.SupplMeshList.present
    THEN LET names == medline.SupplMeshList.SupplMeshName
         IN  Return([i \in 1..Len(names) |->
                       [type |-> AttrGet(names[i].Type),
                        UI |-> AttrGet(names[i].UI),
                        supplementary_concept |-> names[i].text]])
    ELSE Return(<<>>)

PUBMED == <<"p", "u", "b", "m", "e", "d">>

\* x.text.strip() if x.text is not None else "", "" for an x that is not there
RefField(leaf) == IF leaf \in {Absent, None} THEN EmptyStr ELSE strip(leaf)

\* One entry of references, lines 638-659
ReferenceEntry(ref) ==
    [citation |-> RefField(ref.Citation),
     pmid |-> IF ref.ArticleIdList.present
              THEN RefField(FindArticleId(ref.ArticleIdList.ArticleId, PUBMED))
              ELSE EmptyStr]

parse_references(pa, reference_list) ==
    LET refs == IF pa.PubmedData.present /\ pa.PubmedData.ReferenceList.present
                THEN pa.PubmedData.ReferenceList.Reference ELSE <<>>
        references == [i \in 1..Len(refs) |-> ReferenceEntry(refs[i])]
    IN  IF reference_list THEN Return(references)
        ELSE Return(join(<<";">>,
                         SelectSeq([i \in 1..Len(references) |-> references[i].pmid],
                                   LAMBDA x : x # EmptyStr)))

----------------------------------------------------------------------------
(* parse_publication_types, parse_keywords, parse_chemical_list,           *)
(* parse_other_id, parse_journal_info, parse_coi_statement                 *)

\* Lines 262-266: text.strip() raises on a PublicationType without text
parse_publication_types(medline) ==
    LET types == IF medline.Article.present /\ medline.Article.PublicationTypeList.present
                 THEN medline.Article.PublicationTypeList.PublicationType ELSE <<>>
    IN  IF \E i \in 1..Len(types) : types[i].text = None THEN Raise
        ELSE Return(join(<<";", " ">>,
                         [i \in 1..Len(types) |->
                            AttrGetDefault(types[i].UI, EmptyStr) \o <<":">>
                            \o Or(strip(types[i].text), EmptyStr)]))

\* Lines 286-292: the keywords that have text
parse_keywords(medline) ==
    IF medline.KeywordList.present
    THEN Return(join(<<";", " ">>,
                     SelectSeq(medline.KeywordList.Keyword, LAMBDA k : k # None)))
    ELSE Return(EmptyStr)

\* Lines 312-321: .text of a child that is not there, and strip() of a text
\* that is not there, raise
parse_chemical_list(medline) ==
    LET chemicals == IF medline.ChemicalList.present
                     THEN medline.ChemicalList.Chemical ELSE <<>>
    IN  IF \E i \in 1..Len(chemicals) :
              \/ chemicals[i].RegistryNumber \in {Absent, None}
              \/ ~chemicals[i].NameOfSubstance.present
              \/ chemicals[i].NameOfSubstance.text = None
        THEN Raise
        ELSE Return(join(<<";", " ">>,
                         [i \in 1..Len(chemicals) |->
                            Or(strip(chemicals[i].RegistryNumber), EmptyStr) \o <<":">>
                            \o AttrGetDefault(chemicals[i].NameOfSubstance.UI, EmptyStr)
                            \o <<":">>
                            \o Or(strip(chemicals[i].NameOfSubstance.text), EmptyStr)]))

PMC == <<"P", "M", "C">>

\* sub in s
Contains(s, sub) ==
    \E i \in 1..(Len(s) - Len(sub) + 1) : SubSeq(s, i, i + Len(sub) - 1) = sub

\* The loop of lines 343-347: the last OtherID holding "PMC" is pmc, the
\* others are collected
RECURSIVE other_id_loop(_, _, _, _)
other_id_loop(oids, i, pmc, other_id) ==
    IF i > Len(oids) THEN [pmc |-> pmc, other_id |-> other_id]
    ELSE IF Contains(oids[i], PMC) THEN other_id_loop(oids, i + 1, oids[i], other_id)
    ELSE other_id_loop(oids, i + 1, pmc, Append(other_id, oids[i]))

\* Mutant: the key pmc is in the result only when a PMC id was found.
parse_other_id_PmcWhenFound(medline) ==
    LET oids == medline.OtherID IN
    IF \E i \in 1..Len(oids) : oids[i] = None THEN Raise
    ELSE LET r == other_id_loop(oids, 1, EmptyStr, <<>>)
         IN  IF r.pmc # EmptyStr
             THEN Return([pmc |-> r.pmc, other_id |-> join(<<";", " ">>, r.other_id)])
             ELSE Return([other_id |-> join(<<";", " ">>, r.other_id)])

\* `"PMC" in oid.text` raises on an OtherID without text
parse_other_id(medline) ==
    LET oids == medline.OtherID IN
    IF \E i \in 1..Len(oids) : oids[i] = None THEN Raise
    ELSE LET r == other_id_loop(oids, 1, EmptyStr, <<>>)
         IN  Return([pmc |-> r.pmc, other_id |-> join(<<";", " ">>, r.other_id)])

\* x.text or "" for a child that is there, "" for one that is not
TextField(leaf) == IF leaf # Absent THEN Or(leaf, EmptyStr) ELSE EmptyStr

\* Lines 368-399: issn_linking is the text as it is, without `or ""`
parse_journal_info(medline) ==
    LET journal_info == medline.MedlineJournalInfo IN
    IF journal_info.present
    THEN Return([medline_ta |-> strip(TextField(journal_info.MedlineTA)),
                 nlm_unique_id |-> TextField(journal_info.NlmUniqueID),
                 issn_linking |-> IF journal_info.ISSNLinking # Absent
                                  THEN journal_info.ISSNLinking ELSE EmptyStr,
                 country |-> TextField(journal_info.Country)])
    ELSE Return([medline_ta |-> strip(EmptyStr), nlm_unique_id |-> EmptyStr,
                 issn_linking |-> EmptyStr, country |-> EmptyStr])

parse_coi_statement(medline) ==
    IF medline.CoiStatement # Absent
    THEN Return(Or(strip(Or(medline.CoiStatement, EmptyStr)), EmptyStr))
    ELSE Return(EmptyStr)

----------------------------------------------------------------------------
(* The abstract, with stringify_children of pubmed_parser.utils *)

\* The text of an element with its inline children flattened to text: the
\* element's own text, then the text and the tail of every child, in order
stringify_children(node) ==
    Or(node.text, EmptyStr)
    \o join(<<>>, [i \in 1..Len(node.children) |->
                     Or(node.children[i].text, EmptyStr)
                     \o Or(node.children[i].tail, EmptyStr)])

NLMCATEGORY == "NlmCategory"
LABEL == "Label"
UNASSIGNED == <<"U", "N", "A", "S", "S", "I", "G", "N", "E", "D">>

\* Mutant: the label is read from the Label attribute whatever nlm_category.
category_LabelOnly(nlm_category) == LABEL

\* Line 1019: the attribute that holds the label of a section
category(nlm_category) == IF nlm_category THEN NLMCATEGORY ELSE LABEL

\* The loop of lines 1024-1030 over the AbstractText elements
RECURSIVE abstract_loop(_, _, _, _)
abstract_loop(sections, i, attribute, abstract_list) ==
    IF i > Len(sections) THEN abstract_list
    ELSE LET section == AttrGetDefault(sections[i][attribute], EmptyStr)
             labelled == IF section # UNASSIGNED
                         THEN abstract_list \o << <<"\n">>, section >>
                         ELSE abstract_list
             section_text == strip(stringify_children(sections[i]))
         IN  abstract_loop(sections, i + 1, attribute, Append(labelled, section_text))

\* Lines 1019-1039
abstract(article, nlm_category) ==
    IF article.Abstract.present /\ article.Abstract.AbstractText # <<>>
    THEN IF Len(article.Abstract.AbstractText) > 1
         THEN strip(join(<<"\n">>,
                         abstract_loop(article.Abstract.AbstractText, 1,
                                       category(nlm_category), <<>>)))
         ELSE Or(strip(stringify_children(article.Abstract.AbstractText[1])), EmptyStr)
    ELSE IF article.Abstract.present
    THEN Or(strip(stringify_children(article.Abstract)), EmptyStr)
    ELSE EmptyStr

----------------------------------------------------------------------------
(* parse_article_info: the record of one citation *)

\* Mutant: the volume is kept when there is no issue number to compose.
ComposeIssue_BareVolume(volume, issue) ==
    IF volume = EmptyStr THEN EmptyStr
    ELSE IF issue = EmptyStr THEN volume
    ELSE volume \o <<"(">> \o issue \o <<")">>

\* Lines 1009-1012: the composed issue
ComposeIssue(volume, issue) ==
    IF volume = EmptyStr THEN EmptyStr
    ELSE volume \o <<"(">> \o issue \o <<")">>

\* Lines 1084-1090: the joined form of the e-location ids; None + "|" raises
JoinElocationIds(elocation_ids) ==
    IF \E i \in 1..Len(elocation_ids) : elocation_ids[i].type = None THEN Raise
    ELSE Return(join(<<";">>,
                     [i \in 1..Len(elocation_ids) |->
                        elocation_ids[i].type \o <<"|">> \o elocation_ids[i].ELocationID]))

\* Lines 1043-1049: the non-empty affiliations
JoinAffiliations(authors_dict) ==
    join(<<";">>, SelectSeq([i \in 1..Len(authors_dict) |-> authors_dict[i].affiliation],
                            LAMBDA x : x # EmptyStr))

\* Lines 1050-1058: the joined form of the authors, without the affiliation
JoinAuthors(authors_dict) ==
    join(<<";">>,
         [i \in 1..Len(authors_dict) |->
            LET author == authors_dict[i] IN
            author.lastname \o <<"|">> \o author.forename \o <<"|">>
            \o author.initials \o <<"|">> \o author.suffix \o <<"|">>
            \o author.author_type \o <<"|">> \o author.identifier_type \o <<"|">>
            \o author.identifier \o <<"|">> \o author.corporate])

\* Lines 1064-1070 and 1110-1116: the joined form of investigators and of
\* personal subject names
JoinPersons(persons) ==
    join(<<";">>,
         [i \in 1..Len(persons) |->
            persons[i].lastname \o <<"|">> \o persons[i].forename \o <<"|">>
            \o persons[i].initials \o <<"|">> \o persons[i].suffix])

\* Lines 1094-1104: the name of an entry is an element or None, never a str,
\* so that name + "/" + number raises, and so does ";".join over a name
JoinDatabanks(databanks) ==
    IF databanks # <<>> THEN Raise ELSE Return(join(<<";">>, <<>>))

\* Lines 1120-1126: the joined form of the supplementary concepts; None in a
\* concatenation raises
JoinSupplementaryConcepts(supplementary_concepts) ==
    IF \E i \in 1..Len(supplementary_concepts) :
          None \in {supplementary_concepts[i].type, supplementary_concepts[i].UI,
                    supplementary_concepts[i].supplementary_concept}
    THEN Raise
    ELSE Return(join(<<";">>,
                     [i \in 1..Len(supplementary_concepts) |->
                        supplementary_concepts[i].type \o <<"|">>
                        \o supplementary_concepts[i].UI \o <<"|">>
                        \o supplementary_concepts[i].supplementary_concept]))

\* Lines 1076-1081: the joined form of the history dates; None + "|" raises
JoinHistoryDates(history_dates) ==
    IF \E i \in 1..Len(history_dates) :
          None \in {history_dates[i].status, history_dates[i].date}
    THEN Raise
    ELSE Return(join(<<";">>,
                     [i \in 1..Len(history_dates) |->
                        history_dates[i].status \o <<"|">> \o history_dates[i].date]))

\* Lines 1131-1138: the joined form of the grants; None + "|" raises
JoinGrantIds(grant_ids) ==
    IF \E i \in 1..Len(grant_ids) :
          None \in {grant_ids[i].grant_id, grant_ids[i].grant_acronym,
                    grant_ids[i].country, grant_ids[i].agency}
    THEN Raise
    ELSE Return(join(<<";">>,
                     [i \in 1..Len(grant_ids) |->
                        grant_ids[i].grant_id \o <<"|">> \o grant_ids[i].grant_acronym
                        \o <<"|">> \o grant_ids[i].country \o <<"|">>
                        \o grant_ids[i].agency]))

parse_article_info(pa, cfg) ==
    LET medline == pa.MedlineCitation IN
    IF ~medline.present THEN Raise
    ELSE LET article == medline.Article IN
    IF ~article.present THEN Raise
    ELSE
    LET title == IF article.ArticleTitle.present
                 THEN Or(strip(stringify_children(article.ArticleTitle)), EmptyStr)
                 ELSE EmptyStr
        vernacular_title ==
            IF article.VernacularTitle.present
            THEN Or(strip(stringify_children(article.VernacularTitle)), EmptyStr)
            ELSE EmptyStr
        journal == article.Journal
        journal_issue == journal.JournalIssue
        has_journal_issue == journal.present /\ journal_issue.present
        volume == IF has_journal_issue /\ journal_issue.Volume # Absent
                  THEN Or(journal_issue.Volume, EmptyStr) ELSE EmptyStr
        short_issue == IF has_journal_issue /\ journal_issue.Issue # Absent
                       THEN Or(journal_issue.Issue, EmptyStr) ELSE EmptyStr
        issue == ComposeIssue(volume, short_issue)
        languages == IF article.Language # <<>>
                     THEN IF \E i \in 1..Len(article.Language) :
                                article.Language[i] = None
                          THEN Raise
                          ELSE Return(join(<<";">>, article.Language))
                     ELSE Return(EmptyStr)
        pages == TextField(article.MedlinePgn)
        authors_dict == parse_author_affiliation(medline).val
        authors == IF ~cfg.author_list THEN JoinAuthors(authors_dict) ELSE authors_dict
        investigators_dict == parse_investigators_list(medline).val
        investigators == IF ~cfg.investigator_list THEN JoinPersons(investigators_dict)
                         ELSE investigators_dict
        databanks == parse_databank_list(medline)
        databanks_info == IF databanks.ok /\ ~cfg.databank_list
                          THEN JoinDatabanks(databanks.val) ELSE databanks
        personal_subject_names_parsed == parse_personal_subject_names_list(medline)
        personal_subject_names ==
            IF personal_subject_names_parsed.ok /\ ~cfg.personal_subject_names_list
            THEN Return(JoinPersons(personal_subject_names_parsed.val))
            ELSE personal_subject_names_parsed
        supplementary_concepts_parsed == parse_supplementary_concepts_list(medline)
        supplementary_concepts ==
            IF supplementary_concepts_parsed.ok /\ ~cfg.supplementary_concepts_list
            THEN JoinSupplementaryConcepts(supplementary_concepts_parsed.val)
            ELSE supplementary_concepts_parsed
        references == parse_references(pa, cfg.reference_list)
        history_dates_parsed ==
            parse_pubmed_history_dates(pa, cfg.year_info_only, cfg.parse_time)
        history_dates == IF history_dates_parsed.ok /\ ~cfg.history_dates_list
                         THEN JoinHistoryDates(history_dates_parsed.val)
                         ELSE history_dates_parsed
        elocation_ids_parsed == parse_elocation_ids(pa)
        elocation_ids == IF elocation_ids_parsed.ok /\ ~cfg.elocation_ids_list
                         THEN JoinElocationIds(elocation_ids_parsed.val)
                         ELSE elocation_ids_parsed
        has_publication_status ==
            pa.PubmedData.present /\ pa.PubmedData.PublicationStatus # Absent
        grant_ids_parsed == parse_grant_id(pa)
        grant_ids == IF grant_ids_parsed.ok /\ ~cfg.grant_ids_list
                     THEN JoinGrantIds(grant_ids_parsed.val)
                     ELSE grant_ids_parsed
        pmid == parse_pmid(pa)
        doi == parse_doi(pa)
        pubdate == IF journal.present THEN date_extractor(journal, cfg.year_info_only)
                   ELSE Raise
        mesh_results == parse_mesh_info(medline)
        publication_types == parse_publication_types(medline)
        chemical_list == parse_chemical_list(medline)
        keywords == parse_keywords(medline)
        other_id_dict == parse_other_id(medline)
        journal_info_dict == parse_journal_info(medline)
        coi_statement == parse_coi_statement(medline)
        completion_date == parse_completion_date(medline, cfg.year_info_only)
        modification_date == parse_modification_date(medline, cfg.year_info_only)
    IN  IF \/ ~languages.ok
           \/ ~history_dates.ok
           \/ ~databanks_info.ok
           \/ ~personal_subject_names.ok
           \/ ~supplementary_concepts.ok
           \/ ~elocation_ids.ok
           \/ ~has_publication_status
           \/ ~grant_ids.ok
           \/ ~journal.present
           \/ ~pmid.ok
           \/ ~doi.ok
           \/ ~pubdate.ok
           \/ ~mesh_results.ok
           \/ ~publication_types.ok
           \/ ~chemical_list.ok
           \/ ~other_id_dict.ok
           \/ ~completion_date.ok
           \/ ~modification_date.ok
        THEN Raise
        ELSE Return(
               (IF ~cfg.author_list
                THEN [affiliations |-> JoinAffiliations(authors_dict)]
                ELSE <<>>)
               @@ other_id_dict.val
               @@ journal_info_dict.val
               @@
               [title |-> title,
                abstract |-> abstract(article, cfg.nlm_category),
                vernacular_title |-> vernacular_title,
                issue |-> issue,
                short_issue |-> short_issue,
                volume |-> volume,
                pages |-> pages,
                journal |-> join(<<" ">>, journal.Title),
                authors |-> authors,
                pubdate |-> pubdate.val,
                pmid |-> pmid.val,
                mesh_terms |-> mesh_results.val.mesh_terms,
                mesh_subheadings |-> mesh_results.val.mesh_subheadings,
                mesh_major_topics |-> mesh_results.val.mesh_major_topics,
                mesh_full_terms |-> mesh_results.val.mesh_full_terms,
                publication_types |-> publication_types.val,
                chemical_list |-> chemical_list.val,
                keywords |-> keywords.val,
                doi |-> doi.val,
                references |-> references.val,
                delete |-> FALSE,
                languages |-> languages.val,
                coi_statement |-> coi_statement.val,
                completion_date |-> completion_date.val,
                modification_date |-> modification_date.val,
                history_dates |-> history_dates.val,
                investigators |-> investigators,
                elocation_ids |-> elocation_ids.val,
                databanks |-> databanks_info.val,
                personal_subject_names |-> personal_subject_names.val,
                supplementary_concepts |-> supplementary_concepts.val,
                publication_status |-> pa.PubmedData.PublicationStatus,
                grant_ids |-> grant_ids.val])

\* The citation node after parse_article_info. The only statement of the
\* extractors that is not a read of the tree is line 894, reached through
\* line 1108 when nothing before it has raised (lines 979-1106).
pubmed_article_after_parse_article_info(pa, cfg) ==
    LET medline == pa.MedlineCitation
        article == medline.Article
        history_dates_parsed ==
            parse_pubmed_history_dates(pa, cfg.year_info_only, cfg.parse_time)
        elocation_ids_parsed == parse_elocation_ids(pa)
        databanks == parse_databank_list(medline)
    IN  IF ~medline.present \/ ~article.present THEN pa
        ELSE IF \E i \in 1..Len(article.Language) : article.Language[i] = None THEN pa
        ELSE IF ~history_dates_parsed.ok THEN pa
        ELSE IF ~cfg.history_dates_list /\ ~JoinHistoryDates(history_dates_parsed.val).ok
             THEN pa
        ELSE IF ~elocation_ids_parsed.ok THEN pa
        ELSE IF ~cfg.elocation_ids_list /\ ~JoinElocationIds(elocation_ids_parsed.val).ok
             THEN pa
        ELSE IF ~databanks.ok THEN pa
        ELSE IF ~cfg.databank_list /\ ~JoinDatabanks(databanks.val).ok THEN pa
        ELSE [pa EXCEPT !.MedlineCitation =
                           medline_after_parse_personal_subject_names_list(@)]

----------------------------------------------------------------------------
(* The drivers: parse_medline_xml and parse_medline_grant_id *)

\* The keys of a delete record other than pmid and delete, lines 1305-1344
DeleteKeys ==
    {"title", "abstract", "journal", "authors", "affiliations", "pubdate", "doi",
     "other_id", "pmc", "mesh_terms", "mesh_subheadings", "mesh_major_topics",
     "mesh_full_terms", "keywords", "publication_types", "chemical_list",
     "medline_ta", "nlm_unique_id", "issn_linking", "country", "references",
     "issue", "short_issue", "volume", "pages", "languages", "vernacular_title",
     "coi_statement", "completion_date", "modification_date", "history_dates",
     "investigators", "elocation_ids", "databanks", "personal_subject_names",
     "supplementary_concepts", "publication_status", "grant_ids"}

\* Mutant: a delete record carries "" where nothing applies.
DeleteRecord_EmptyFields(p) ==
    [k \in DeleteKeys \cup {"pmid", "delete"} |->
        IF k = "pmid" THEN strip(p) ELSE IF k = "delete" THEN TRUE ELSE EmptyStr]

\* One entry of dict_delete, for a DeleteCitation/PMID with text p
DeleteRecord(p) ==
    [k \in DeleteKeys \cup {"pmid", "delete"} |->
        IF k = "pmid" THEN strip(p) ELSE IF k = "delete" THEN TRUE ELSE NaN]

\* A MedlineCitationSet/MedlineCitation element as the node handed to the
\* per-citation extractors: its children are PMID, Article, ..., so that
\* find("MedlineCitation") and find("PubmedData/...") on it find nothing.
MedlineCitationNode(m) ==
    [MedlineCitation |-> NoMedlineCitation, PubmedData |-> NoPubmedData]

\* Lines 1289-1291 and 1377-1379: the citation nodes, by the primary path
\* and, when it finds none, by the alternate path
FindCitations(t) ==
    IF Len(t.MedlineCitationSet) = 0
    THEN t.PubmedArticle
    ELSE [i \in 1..Len(t.MedlineCitationSet) |-> MedlineCitationNode(t.MedlineCitationSet[i])]

\* Mutant: the delete notices are not turned into records.
parse_medline_xml_NoDeletes(t, cfg) ==
    LET medline_citations == FindCitations(t)
        article_list == [i \in 1..Len(medline_citations) |->
                           parse_article_info(medline_citations[i], cfg)]
    IN  IF \E i \in 1..Len(article_list) : ~article_list[i].ok THEN Raise
        ELSE Return([i \in 1..Len(article_list) |-> article_list[i].val])

\* Mutant: a citation whose extraction raises is left out of the result.
parse_medline_xml_SkipMalformed(t, cfg) ==
    LET medline_citations == FindCitations(t)
        article_list == SelectSeq([i \in 1..Len(medline_citations) |->
                                     parse_article_info(medline_citations[i], cfg)],
                                  LAMBDA r : r.ok)
        delete_citations == t.DeleteCitation
    IN  IF \E j \in 1..Len(delete_citations) : delete_citations[j] = None THEN Raise
        ELSE Return([i \in 1..Len(article_list) |-> article_list[i].val]
                    \o [j \in 1..Len(delete_citations) |-> DeleteRecord(delete_citations[j])])

\* Mutant: the records are collected in a list that outlives the call, so
\* that a second run returns the records of the first and its own.
parse_medline_xml_SharedBuffer(t, cfg) ==
    LET medline_citations == FindCitations(t)
        article_list == [i \in 1..Len(medline_citations) |->
                           parse_article_info(medline_citations[i], cfg)]
        delete_citations == t.DeleteCitation
        kept == IF called = "parse_medline_xml" /\ result.ok THEN result.val ELSE <<>>
    IN  IF \E i \in 1..Len(article_list) : ~article_list[i].ok THEN Raise
        ELSE IF \E j \in 1..Len(delete_citations) : delete_citations[j] = None THEN Raise
        ELSE Return(kept
                    \o [i \in 1..Len(article_list) |-> article_list[i].val]
                    \o [j \in 1..Len(delete_citations) |-> DeleteRecord(delete_citations[j])])

\* Lines 1302-1349: the records of the deleted citations follow the article
\* records; a record that could not be built has already raised at line 1292
article_list_and_deletes(article_list, delete_citations) ==
    IF \E i \in 1..Len(article_list) : ~article_list[i].ok THEN Raise
    ELSE IF \E j \in 1..Len(delete_citations) : delete_citations[j] = None THEN Raise
    ELSE Return([i \in 1..Len(article_list) |-> article_list[i].val]
                \o [j \in 1..Len(delete_citations) |-> DeleteRecord(delete_citations[j])])

parse_medline_xml(t, cfg) ==
    LET medline_citations == FindCitations(t)
        article_list == [i \in 1..Len(medline_citations) |->
                           parse_article_info(medline_citations[i], cfg)]
    IN  article_list_and_deletes(article_list, t.DeleteCitation)

\* The tree after parse_medline_xml: list(map(...)) of line 1292 runs
\* parse_article_info on the citation nodes in turn, up to the first that
\* raises. A node found by the primary path raises at line 980.
tree_after_parse_medline_xml(t, cfg) ==
    IF Len(t.MedlineCitationSet) > 0 THEN t
    ELSE [t EXCEPT !.PubmedArticle =
            [i \in 1..Len(t.PubmedArticle) |->
                IF \A j \in 1..(i - 1) : parse_article_info(t.PubmedArticle[j], cfg).ok
                THEN pubmed_article_after_parse_article_info(t.PubmedArticle[i], cfg)
                ELSE t.PubmedArticle[i]]]

parse_medline_grant_id(t) ==
    LET medline_citations == FindCitations(t)
        grant_id_list == [i \in 1..Len(medline_citations) |->
                            parse_grant_id(medline_citations[i])]
    IN  IF \E i \in 1..Len(grant_id_list) : ~grant_id_list[i].ok THEN Raise
        ELSE Return(Flatten([i \in 1..Len(grant_id_list) |-> grant_id_list[i].val]))

----------------------------------------------------------------------------
(* A well-formed citation, from which the inputs are varied *)

BaseDate == [NoDate EXCEPT !.present = TRUE, !.Year = <<"1", "9", "7", "5">>]

BaseJournalIssue ==
    [present |-> TRUE, Volume |-> <<"5", "0">>, Issue |-> <<"2">>,
     PubDate |-> BaseDate]

BaseJournal ==
    [present |-> TRUE, Title |-> << <<"J">> >>, JournalIssue |-> BaseJournalIssue]

BaseArticle == [NoArticle EXCEPT !.present = TRUE, !.Journal = BaseJournal]

BaseMedlineCitation ==
    [NoMedlineCitation EXCEPT !.present = TRUE, !.PMID = <<"7">>,
                              !.Article = BaseArticle]

BasePubmedData ==
    [NoPubmedData EXCEPT !.present = TRUE, !.PublicationStatus = <<"p">>]

BasePubmedArticle ==
    [MedlineCitation |-> BaseMedlineCitation, PubmedData |-> BasePubmedData]

DefaultConfig ==
    [year_info_only |-> TRUE, nlm_category |-> FALSE, parse_time |-> FALSE,
     author_list |-> FALSE, reference_list |-> FALSE, history_dates_list |-> FALSE,
     investigator_list |-> FALSE, elocation_ids_list |-> FALSE,
     databank_list |-> FALSE, personal_subject_names_list |-> FALSE,
     supplementary_concepts_list |-> FALSE, grant_ids_list |-> FALSE]

EmptyTree == [MedlineCitationSet |-> <<>>, PubmedArticle |-> <<>>, DeleteCitation |-> <<>>]

----------------------------------------------------------------------------
(* Identifier extractors: parse_pmid, parse_doi, parse_elocation_ids *)

ELocationTexts == {None, <<" ", "a">>, <<"b">>}
ELocationTypes == {Absent, DOI, PII}
ELocationIDs ==
    SeqUpTo([EIdType : ELocationTypes, text : ELocationTexts], MaxELocationIDs)

ArticleIdTexts == {None, <<" ">>, <<"c", " ">>}
ArticleIdTypes == {DOI, PMIDTYPE}
PubmedDatas ==
    {NoPubmedData, BasePubmedData}
    \cup {[BasePubmedData EXCEPT !.ArticleIdList = [present |-> TRUE, ArticleId |-> ids]] :
            ids \in SeqUpTo([IdType : ArticleIdTypes, text : ArticleIdTexts], MaxArticleIds)}

PMIDs == {Absent, None, <<"7", " ">>}

IdArticles ==
    {[MedlineCitation |-> [BaseMedlineCitation EXCEPT !.PMID = p], PubmedData |-> pd] :
        p \in PMIDs, pd \in PubmedDatas}
    \cup
    {[MedlineCitation |-> [BaseMedlineCitation EXCEPT !.Article.ELocationID = es],
      PubmedData |-> pd] : es \in ELocationIDs, pd \in PubmedDatas}

InitIds ==
    /\ tree = EmptyTree
    /\ pubmed_article \in IdArticles
    /\ date_xml = BaseDate
    /\ config = DefaultConfig
    /\ called = "none"
    /\ result = Return(<<>>)

Call_parse_pmid ==
    /\ called = "none"
    /\ called' = "parse_pmid"
    /\ result' = parse_pmid(pubmed_article)
    /\ UNCHANGED <<tree, pubmed_article, date_xml, config>>

Call_parse_doi ==
    /\ called = "none"
    /\ called' = "parse_doi"
    /\ result' = parse_doi(pubmed_article)
    /\ UNCHANGED <<tree, pubmed_article, date_xml, config>>

Call_parse_elocation_ids ==
    /\ called = "none"
    /\ called' = "parse_elocation_ids"
    /\ result' = parse_elocation_ids(pubmed_article)
    /\ UNCHANGED <<tree, pubmed_article, date_xml, config>>

NextIds == Call_parse_pmid \/ Call_parse_doi \/ Call_parse_elocation_ids

SpecIds == InitIds /\ [][NextIds]_vars

\* The ELocationID elements of the citation under test, and the indices typed "doi"
TheELocationIDs == pubmed_article.MedlineCitation.Article.ELocationID
DoiTyped == {i \in 1..Len(TheELocationIDs) : TheELocationIDs[i].EIdType = DOI}
SetMax(S) == CHOOSE m \in S : \A x \in S : x <= m
SetMin(S) == CHOOSE m \in S : \A x \in S : m <= x

\* The text of the first ArticleIdList entry of type t, Absent when there is none
ArticleIdText(t) ==
    LET ids == pubmed_article.PubmedData.ArticleIdList.ArticleId
        idx == {i \in 1..Len(ids) : ids[i].IdType = t}
    IN  IF pubmed_article.PubmedData.present
           /\ pubmed_article.PubmedData.ArticleIdList.present /\ idx # {}
        THEN ids[SetMin(idx)].text
        ELSE Absent

\* C4 (as claimed): parse_doi returns the trimmed text of the last doi-typed
\* ELocationID whenever one ELocationID is typed "doi", whatever other
\* ELocationIDs precede or follow it; with no doi-typed ELocationID it returns
\* the trimmed text of the ArticleIdList entry typed "doi"; with neither, "".
\* (Stated for elements that have text.)
C4_DoiPrecedence ==
    (/\ called = "parse_doi"
     /\ \A i \in DoiTyped : TheELocationIDs[i].text # None
     /\ ArticleIdText(DOI) # None)
    => /\ result.ok
       /\ result.val =
            IF DoiTyped # {} THEN strip(TheELocationIDs[SetMax(DoiTyped)].text)
            ELSE IF ArticleIdText(DOI) # Absent THEN strip(ArticleIdText(DOI))
            ELSE EmptyStr

\* C5: parse_elocation_ids returns one entry per ELocationID in document
\* order; with a doi-typed ELocationID nothing is appended; with none and a
\* non-empty doi entry in ArticleIdList exactly one {type: doi} entry with
\* that value follows the ELocationID entries.
C5_ElocationIds ==
    called = "parse_elocation_ids" =>
        LET xml == TheELocationIDs
            n == Len(xml)
            fallback == ArticleIdText(DOI)
            entries == [i \in 1..n |->
                          [type |-> IF xml[i].EIdType = Absent THEN None
                                    ELSE xml[i].EIdType,
                           ELocationID |-> strip(xml[i].text)]]
            appended == DoiTyped = {} /\ fallback \notin {Absent, None}
                        /\ strip(fallback) # EmptyStr
        IN  /\ ((\A i \in 1..n : xml[i].text # None)
                /\ (DoiTyped # {} \/ fallback # None)) => result.ok
            /\ result.ok =>
                 /\ Len(result.val) >= n
                 /\ \A i \in 1..n : result.val[i] = entries[i]
                 /\ DoiTyped # {} => Len(result.val) = n
                 /\ appended =>
                      /\ Len(result.val) = n + 1
                      /\ result.val[n + 1] =
                           [type |-> DOI, ELocationID |-> strip(fallback)]
                 /\ ~appended => Len(result.val) = n

\* C5 witness: a citation with ELocationIDs, none typed "doi", and a doi in
\* ArticleIdList: the fallback entry has been appended.
C5_Witness ==
    /\ called = "parse_elocation_ids"
    /\ result.ok
    /\ Len(TheELocationIDs) >= 1
    /\ DoiTyped = {}
    /\ Len(result.val) = Len(TheELocationIDs) + 1

\* C6 (as claimed): parse_pmid returns the text of the direct PMID child when
\* there is one, else the trimmed text of the ArticleIdList entry typed
\* "pmid", else ""; the result is always a string.
C6_PmidIsString ==
    called = "parse_pmid" =>
        LET pmid == pubmed_article.MedlineCitation.PMID
            fallback == ArticleIdText(PMIDTYPE)
        IN  /\ result.ok
            /\ result.val # None
            /\ pmid # Absent => result.val = pmid
            /\ (pmid = Absent /\ fallback \notin {Absent, None}) =>
                    result.val = strip(fallback)
            /\ (pmid = Absent /\ fallback \in {Absent, None}) =>
                    result.val = EmptyStr

----------------------------------------------------------------------------
(* MeSH: parse_mesh_info over the MeshHeadingList of a citation *)

Y == <<"Y">>
N == <<"N">>

Descriptors ==
    {[UI |-> <<"D", "1">>, MajorTopicYN |-> Y, text |-> <<"a">>],
     [UI |-> <<"D", "1">>, MajorTopicYN |-> N, text |-> <<"a">>],
     [UI |-> Absent, MajorTopicYN |-> Absent, text |-> <<"b">>],
     [UI |-> <<"D", "3">>, MajorTopicYN |-> Y, text |-> None]}

Qualifiers ==
    {[UI |-> <<"Q", "1">>, MajorTopicYN |-> Y, text |-> <<"x">>],
     [UI |-> <<"Q", "1">>, MajorTopicYN |-> N, text |-> <<"x">>],
     [UI |-> <<"Q", "2">>, MajorTopicYN |-> Y, text |-> <<"y">>]}

\* Every heading with up to MaxQualifiers qualifiers
MeshHeadings ==
    [DescriptorName : Descriptors, QualifierName : SeqUpTo(Qualifiers, MaxQualifiers)]

\* The headings that longer lists are made of
QualifierSamples ==
    {<<>>,
     <<[UI |-> <<"Q", "1">>, MajorTopicYN |-> N, text |-> <<"x">>],
       [UI |-> <<"Q", "1">>, MajorTopicYN |-> Y, text |-> <<"x">>]>>,
     <<[UI |-> <<"Q", "2">>, MajorTopicYN |-> Y, text |-> <<"y">>]>>}

HeadingSamples == [DescriptorName : Descriptors, QualifierName : QualifierSamples]

\* Lists of up to MaxHeadings sample headings, and any one heading followed by
\* at most one sample heading
MeshHeadingLists ==
    SeqUpTo(HeadingSamples, MaxHeadings)
    \cup {<<h>> : h \in MeshHeadings}
    \cup {<<h, t>> : h \in MeshHeadings, t \in HeadingSamples}

MeshArticles ==
    {BasePubmedArticle}
    \cup {[BasePubmedArticle EXCEPT
             !.MedlineCitation.MeshHeadingList = [present |-> TRUE, MeshHeading |-> hs]] :
            hs \in MeshHeadingLists}

InitMesh ==
    /\ tree = EmptyTree
    /\ pubmed_article \in MeshArticles
    /\ date_xml = BaseDate
    /\ config = DefaultConfig
    /\ called = "none"
    /\ result = Return(<<>>)

Call_parse_mesh_info ==
    /\ called = "none"
    /\ pubmed_article.MedlineCitation.present
    /\ called' = "parse_mesh_info"
    /\ result' = parse_mesh_info(pubmed_article.MedlineCitation)
    /\ UNCHANGED <<tree, pubmed_article, date_xml, config>>

NextMesh == Call_parse_mesh_info

SpecMesh == InitMesh /\ [][NextMesh]_vars

TheHeadings == pubmed_article.MedlineCitation.MeshHeadingList.MeshHeading

\* Every DescriptorName and QualifierName of the citation has text
MeshTextsPresent ==
    \A i \in 1..Len(TheHeadings) :
        /\ TheHeadings[i].DescriptorName.text # None
        /\ \A k \in 1..Len(TheHeadings[i].QualifierName) :
               TheHeadings[i].QualifierName[k].text # None

UIOf(node) == IF node.UI = Absent THEN EmptyStr ELSE node.UI
StarOf(node) == IF node.MajorTopicYN = Y THEN <<"*">> ELSE EmptyStr

\* The first occurrence of every distinct entry, in order
RECURSIVE FirstOccurrences(_)
FirstOccurrences(list) ==
    IF list = <<>> THEN <<>>
    ELSE LET before == FirstOccurrences(SubSeq(list, 1, Len(list) - 1))
             last == list[Len(list)]
         IN  IF \E i \in 1..Len(before) : before[i] = last THEN before
             ELSE Append(before, last)

\* The full-term entries one heading is to contribute
FullTermsOf(h) ==
    LET d == h.DescriptorName
        qs == h.QualifierName
    IN  IF Len(qs) = 0
        THEN << UIOf(d) \o <<":">> \o d.text \o StarOf(d) >>
        ELSE [k \in 1..Len(qs) |->
                UIOf(d) \o <<"/">> \o UIOf(qs[k]) \o <<":">> \o d.text \o <<"/">>
                \o qs[k].text \o StarOf(qs[k])]

\* The rendered qualifiers of one heading
SubheadingsOf(h) ==
    [k \in 1..Len(h.QualifierName) |->
        UIOf(h.QualifierName[k]) \o <<":">> \o h.QualifierName[k].text]

\* The rendered major topics of one heading: its major qualifiers, or the
\* heading itself when it has no qualifier and is flagged major
MajorTopicsOf(h) ==
    LET d == h.DescriptorName
        qs == h.QualifierName
        majorq == SelectSeq(qs, LAMBDA q : q.MajorTopicYN = Y)
    IN  IF Len(qs) = 0
        THEN IF d.MajorTopicYN = Y THEN << UIOf(d) \o <<":">> \o d.text >> ELSE <<>>
        ELSE [k \in 1..Len(majorq) |-> UIOf(majorq[k]) \o <<":">> \o majorq[k].text]

C9_MeshDeduplicated ==
    (/\ called = "parse_mesh_info"
     /\ pubmed_article.MedlineCitation.MeshHeadingList.present
     /\ MeshTextsPresent)
    => /\ result.ok
       /\ result.val.mesh_subheadings =
            join(<<";", " ">>,
                 FirstOccurrences(
                     Flatten([i \in 1..Len(TheHeadings) |-> SubheadingsOf(TheHeadings[i])])))
       /\ result.val.mesh_major_topics =
            join(<<";", " ">>,
                 FirstOccurrences(
                     Flatten([i \in 1..Len(TheHeadings) |-> MajorTopicsOf(TheHeadings[i])])))

----------------------------------------------------------------------------
(* Dates: get_date_info over one date-bearing node *)

YearTexts == {None, <<"1", "9", "7", "5">>}
MonthTokens == {<<"J", "a", "n">>, <<"3">>, <<"1", "2">>, <<"J", "a">>}
DayTokens == {<<"7">>, <<"2", "1">>}
HourTokens == {<<"0">>, <<"9">>}
MinuteTokens == {<<"5">>, <<"3", "0">>}
MedlineDateTexts ==
    {None, <<"1", "9", "7", "5", " ", "J", "a", "n">>, <<"n", "o">>,
     <<"a", "1", "9", "7", "5", "6">>, <<"1", "9", "7", " ", "2", "0", "0", "1">>}

DateNodes ==
    {NoDate}
    \cup [present : {TRUE},
          Year : {Absent} \cup YearTexts,
          Month : {Absent} \cup MonthTokens,
          Day : {Absent} \cup DayTokens,
          Hour : {Absent} \cup HourTokens,
          Minute : {Absent} \cup MinuteTokens,
          MedlineDate : {Absent} \cup MedlineDateTexts]

InitDate ==
    /\ tree = EmptyTree
    /\ pubmed_article = BasePubmedArticle
    /\ date_xml \in DateNodes
    /\ config \in {[DefaultConfig EXCEPT !.year_info_only = y, !.parse_time = t] :
                       y \in BOOLEAN, t \in BOOLEAN}
    /\ called = "none"
    /\ result = Return(<<>>)

Call_get_date_info ==
    /\ called = "none"
    /\ called' = "get_date_info"
    /\ result' = get_date_info(date_xml, config.year_info_only, config.parse_time)
    /\ UNCHANGED <<tree, pubmed_article, date_xml, config>>

NextDate == Call_get_date_info

SpecDate == InitDate /\ [][NextDate]_vars

\* The two-digit rendering of the well-formed tokens used as inputs
TwoDigits(token) ==
    CASE token = <<"J", "a", "n">> -> <<"0", "1">>
      [] token = <<"3">> -> <<"0", "3">>
      [] token = <<"1", "2">> -> <<"1", "2">>
      [] token = <<"7">> -> <<"0", "7">>
      [] token = <<"2", "1">> -> <<"2", "1">>
      [] token = <<"0">> -> <<"0", "0">>
      [] token = <<"9">> -> <<"0", "9">>
      [] token = <<"5">> -> <<"0", "5">>
      [] token = <<"3", "0">> -> <<"3", "0">>

WellFormedTokens ==
    {<<"J", "a", "n">>, <<"3">>, <<"1", "2">>, <<"7">>, <<"2", "1">>, <<"0">>,
     <<"9">>, <<"5">>, <<"3", "0">>}

DateTokensWellFormed ==
    \A t \in {date_xml.Month, date_xml.Day, date_xml.Hour, date_xml.Minute} :
        t = Absent \/ t \in WellFormedTokens

Truncate(d) ==
    LET month == IF d.Year = Absent THEN Absent ELSE d.Month
        day == IF month = Absent THEN Absent ELSE d.Day
        hour == IF day = Absent THEN Absent ELSE d.Hour
        minute == IF hour = Absent THEN Absent ELSE d.Minute
    IN  [d EXCEPT !.Month = month, !.Day = day, !.Hour = hour, !.Minute = minute]

\* C11: a finer component counts only under every coarser one.  The result
\* for a node is the result for the node cut at its first missing component;
\* with a year text and well-formed tokens, a chain that stops at Month
\* yields the year, one that stops at Day yields YYYY-MM, one that stops at
\* Hour yields YYYY-MM-DD, whatever finer components follow the gap.
C11_ForwardFill ==
    (called = "get_date_info" /\ date_xml.present)
    => LET d == date_xml
           ym == d.Year \o <<"-">> \o TwoDigits(d.Month)
           ymd == ym \o <<"-">> \o TwoDigits(d.Day)
       IN  /\ result = get_date_info(Truncate(d), config.year_info_only, config.parse_time)
           /\ (/\ ~config.year_info_only
               /\ d.Year \notin {Absent, None}
               /\ DateTokensWellFormed)
              => /\ result.ok
                 /\ d.Month = Absent => result.val = d.Year
                 /\ (d.Month # Absent /\ d.Day = Absent) => result.val = ym
                 /\ (d.Month # Absent /\ d.Day # Absent /\ d.Hour = Absent)
                      => result.val = ymd

\* C11 witness: Year, Month, Hour and Minute without a Day, time asked for.
C11_Witness ==
    /\ called = "get_date_info"
    /\ ~config.year_info_only
    /\ config.parse_time
    /\ date_xml.Year = <<"1", "9", "7", "5">>
    /\ date_xml.Month = <<"J", "a", "n">>
    /\ date_xml.Day = Absent
    /\ date_xml.Hour = <<"9">>
    /\ date_xml.Minute = <<"3", "0">>
    /\ result = Return(<<"1", "9", "7", "5", "-", "0", "1">>)

\* HH:MM after "YYYY-MM-DD ": two digits, a colon, two digits
IsDateTime(s) ==
    /\ Len(s) = 16
    /\ s[11] = " "
    /\ s[14] = ":"
    /\ \A i \in {12, 13, 15, 16} : s[i] \in Digits

\* C12: with parse_time on, year_info_only off and Year, Month, Day and Hour
\* there, the result is the date, a space and a time HH:MM.
C12_TimeIsHourMinute ==
    (/\ called = "get_date_info"
     /\ date_xml.present
     /\ ~config.year_info_only
     /\ config.parse_time
     /\ date_xml.Year \notin {Absent, None}
     /\ DateTokensWellFormed
     /\ date_xml.Month # Absent
     /\ date_xml.Day # Absent
     /\ date_xml.Hour # Absent)
    => result.ok /\ IsDateTime(result.val)

\* r is the leftmost run of four digits of text, or "" when text has none
IsFirstRun(text, r) ==
    \/ /\ r = EmptyStr
       /\ \A i \in 1..(Len(text) - 3) : \E k \in 0..3 : text[i + k] \notin Digits
    \/ \E i \in 1..(Len(text) - 3) :
          /\ r = SubSeq(text, i, i + 3)
          /\ \A k \in 1..Len(r) : r[k] \in Digits
          /\ \A j \in 1..(i - 1) : \E k \in 0..3 : text[j + k] \notin Digits

\* C13: without a Year, a MedlineDate text yields its first run of four
\* digits, "" when it has none, for either value of year_info_only; with
\* neither Year nor MedlineDate the result is "".
C13_MedlineDateYear ==
    (/\ called = "get_date_info"
     /\ date_xml.present
     /\ date_xml.Year = Absent
     /\ date_xml.MedlineDate # None)
    => /\ result.ok
       /\ date_xml.MedlineDate = Absent => result.val = EmptyStr
       /\ date_xml.MedlineDate # Absent => IsFirstRun(date_xml.MedlineDate, result.val)

\* C13 witness: a MedlineDate whose first four-digit run is not at its start.
C13_Witness ==
    /\ called = "get_date_info"
    /\ date_xml.Year = Absent
    /\ date_xml.MedlineDate = <<"1", "9", "7", " ", "2", "0", "0", "1">>
    /\ result = Return(<<"2", "0", "0", "1">>)

----------------------------------------------------------------------------
(* One citation: parse_article_info *)

GrantSamples ==
    {[GrantID |-> <<"G">>, Acronym |-> <<"H", "L">>, Country |-> <<"U">>, Agency |-> <<"N">>],
     [GrantID |-> Absent, Acronym |-> Absent, Country |-> Absent, Agency |-> Absent],
     [GrantID |-> None, Acronym |-> <<"H", "L">>, Country |-> <<"U">>, Agency |-> None]}

GrantLists ==
    {NoGrantList}
    \cup {[present |-> TRUE, Grant |-> gs] : gs \in SeqUpTo(GrantSamples, MaxGrants)}

JournalIssues ==
    {NoJournalIssue}
    \cup [present : {TRUE},
          Volume : {Absent, None, <<"5", "0">>},
          Issue : {Absent, None, <<"2">>},
          PubDate : {NoDate, BaseDate, [BaseDate EXCEPT !.Month = <<"J", "a", "n">>]}]

Journals ==
    {NoJournal}
    \cup [present : {TRUE},
          Title : {<<>>, << <<"J">> >>, << <<"J">>, <<"K">> >>},
          JournalIssue : JournalIssues]

JournalArticles ==
    {[BasePubmedArticle EXCEPT !.MedlineCitation.Article.Journal = j] : j \in Journals}

StatusArticles ==
    {[BasePubmedArticle EXCEPT !.PubmedData = pd] : pd \in PubmedDatas}
    \cup {[BasePubmedArticle EXCEPT !.PubmedData.PublicationStatus = st] :
            st \in {Absent, None}}

GrantArticles ==
    {[BasePubmedArticle EXCEPT !.MedlineCitation.Article.GrantList = gl,
                               !.MedlineCitation.PMID = p] :
        gl \in GrantLists, p \in PMIDs}

MalformedArticles ==
    {[BasePubmedArticle EXCEPT !.MedlineCitation = NoMedlineCitation],
     [BasePubmedArticle EXCEPT !.MedlineCitation.Article = NoArticle]}

ArticleInputs ==
    JournalArticles \cup StatusArticles \cup GrantArticles \cup MalformedArticles
    \cup IdArticles \cup MeshArticles

ArticleConfigs ==
    {[DefaultConfig EXCEPT !.year_info_only = y, !.elocation_ids_list = e,
                           !.grant_ids_list = g] :
        y \in BOOLEAN, e \in BOOLEAN, g \in BOOLEAN}

InitArticle ==
    /\ tree = EmptyTree
    /\ pubmed_article \in ArticleInputs
    /\ date_xml = BaseDate
    /\ config \in ArticleConfigs
    /\ called = "none"
    /\ result = Return(<<>>)

Call_parse_article_info ==
    /\ called = "none"
    /\ called' = "parse_article_info"
    /\ result' = parse_article_info(pubmed_article, config)
    /\ pubmed_article' = pubmed_article_after_parse_article_info(pubmed_article, config)
    /\ UNCHANGED <<tree, date_xml, config>>

NextArticle == Call_parse_article_info

SpecArticle == InitArticle /\ [][NextArticle]_vars

\* The text of an optional leaf, "" when it is absent or empty
TextOrEmpty(leaf) == IF leaf \in {Absent, None} THEN EmptyStr ELSE leaf

TheJournalIssue == pubmed_article.MedlineCitation.Article.Journal.JournalIssue

\* C7: in every article record, issue is "{volume}({issue number})" when the
\* volume is non-empty (also with an empty issue number) and "" when it is
\* empty; short_issue is the raw issue number whatever the volume.
C7_IssueComposition ==
    (called = "parse_article_info" /\ result.ok) =>
        LET vol == TextOrEmpty(TheJournalIssue.Volume)
            num == TextOrEmpty(TheJournalIssue.Issue)
        IN  /\ vol # EmptyStr => result.val.issue = vol \o <<"(">> \o num \o <<")">>
            /\ vol = EmptyStr => result.val.issue = EmptyStr
            /\ result.val.short_issue = num
            /\ result.val.volume = vol

\* C7 witness: a volume without an issue number has given "50()".
C7_Witness ==
    /\ called = "parse_article_info"
    /\ result.ok
    /\ TheJournalIssue.Volume = <<"5", "0">>
    /\ TheJournalIssue.Issue = Absent
    /\ result.val.issue = <<"5", "0", "(", ")">>
    /\ result.val.short_issue = EmptyStr

\* The well-formed citation with one of its sub-elements taken away
OptionalNodeRemoved ==
    {BasePubmedArticle,
     [BasePubmedArticle EXCEPT !.PubmedData = NoPubmedData],
     [BasePubmedArticle EXCEPT !.PubmedData.PublicationStatus = Absent],
     [BasePubmedArticle EXCEPT !.MedlineCitation.Article.Journal = NoJournal],
     [BasePubmedArticle EXCEPT
        !.MedlineCitation.Article.Journal.JournalIssue = NoJournalIssue],
     [BasePubmedArticle EXCEPT
        !.MedlineCitation.Article.Journal.JournalIssue.PubDate = NoDate]}

\* C18: a citation that has MedlineCitation and Article, and lacks any of the
\* other sub-elements, yields a record.
C18_AbsentNodesTolerated ==
    (called = "parse_article_info" /\ pubmed_article \in OptionalNodeRemoved)
    => result.ok

----------------------------------------------------------------------------
(* One citation with dates: parse_article_info under the date switches *)

FullDate ==
    [BaseDate EXCEPT !.Month = <<"J", "a", "n">>, !.Day = <<"7">>,
                     !.Hour = <<"9">>, !.Minute = <<"3", "0">>]

DateSamples ==
    {BaseDate,
     FullDate,
     [FullDate EXCEPT !.Minute = Absent],
     [FullDate EXCEPT !.Hour = Absent, !.Minute = Absent],
     [NoDate EXCEPT !.present = TRUE, !.MedlineDate = <<"1", "9", "7", "5", " ", "J", "a", "n">>],
     [NoDate EXCEPT !.present = TRUE, !.MedlineDate = <<"n", "o">>],
     [NoDate EXCEPT !.present = TRUE],
     [BaseDate EXCEPT !.Year = None]}

\* A PubMedPubDate element: a date node with a PubStatus attribute
PubMedPubDate(d, status) ==
    [present |-> d.present, Year |-> d.Year, Month |-> d.Month, Day |-> d.Day,
     Hour |-> d.Hour, Minute |-> d.Minute, MedlineDate |-> d.MedlineDate,
     PubStatus |-> status]

HistorySamples ==
    {PubMedPubDate(d, <<"r">>) : d \in DateSamples}
    \cup {PubMedPubDate(FullDate, Absent)}

Histories ==
    {NoHistory}
    \cup {[present |-> TRUE, PubMedPubDate |-> hs] :
            hs \in SeqUpTo(HistorySamples, MaxHistoryDates)}

DateArticles ==
    {[BasePubmedArticle EXCEPT !.MedlineCitation.Article.Journal.JournalIssue.PubDate = d] :
        d \in DateSamples}
    \cup {[BasePubmedArticle EXCEPT !.MedlineCitation.DateCompleted = d] : d \in DateSamples}
    \cup {[BasePubmedArticle EXCEPT !.MedlineCitation.DateRevised = d] : d \in DateSamples}
    \cup {[BasePubmedArticle EXCEPT !.PubmedData.History = h] : h \in Histories}
    \cup {[BasePubmedArticle EXCEPT
             !.MedlineCitation.Article.Journal.JournalIssue.PubDate = d,
             !.MedlineCitation.DateCompleted = d,
             !.MedlineCitation.DateRevised = d,
             !.PubmedData.History = [present |-> TRUE,
                                     PubMedPubDate |-> <<PubMedPubDate(d, <<"r">>)>>]] :
            d \in DateSamples}

DateConfigs ==
    {[DefaultConfig EXCEPT !.year_info_only = y, !.parse_time = t,
                           !.history_dates_list = l] :
        y \in BOOLEAN, t \in BOOLEAN, l \in BOOLEAN}

InitRecordDates ==
    /\ tree = EmptyTree
    /\ pubmed_article \in DateArticles
    /\ date_xml = BaseDate
    /\ config \in DateConfigs
    /\ called = "none"
    /\ result = Return(<<>>)

NextRecordDates == Call_parse_article_info

SpecRecordDates == InitRecordDates /\ [][NextRecordDates]_vars

ThePubDate == pubmed_article.MedlineCitation.Article.Journal.JournalIssue.PubDate
TheDateCompleted == pubmed_article.MedlineCitation.DateCompleted
TheDateRevised == pubmed_article.MedlineCitation.DateRevised
TheHistory == pubmed_article.PubmedData.History.PubMedPubDate

\* The date nodes of the citation under test
TheDateNodes ==
    {ThePubDate, TheDateCompleted, TheDateRevised}
    \cup {TheHistory[i] : i \in 1..Len(TheHistory)}

\* The year of a date node: the Year text, else the first four-digit run of
\* the MedlineDate text, else ""
YearText(d) ==
    IF d.Year # Absent THEN d.Year
    ELSE IF d.MedlineDate = Absent THEN EmptyStr
    ELSE LET text == d.MedlineDate
             runs == {SubSeq(text, i, i + 3) : i \in 1..(Len(text) - 3)} \cup {EmptyStr}
         IN  CHOOSE r \in runs : IsFirstRun(text, r)

NoTime(s) == \A i \in 1..Len(s) : s[i] \notin {" ", ":"}

\* The record without its history_dates
OtherFields(rec) == [k \in DOMAIN rec \ {"history_dates"} |-> rec[k]]

----------------------------------------------------------------------------
(* One citation with repeated sub-records: parse_article_info under the    *)
(* list switches                                                           *)

PersonSamples ==
    {[LastName |-> <<"S">>, ForeName |-> <<" ", "A">>, Initials |-> <<"A">>,
      Suffix |-> Absent],
     [LastName |-> None, ForeName |-> Absent, Initials |-> Absent,
      Suffix |-> <<"J", "r">>]}

NoIdentifier == [present |-> FALSE, Source |-> Absent, text |-> Absent]

AuthorSamples ==
    {[LastName |-> <<"S">>, ForeName |-> <<"A">>, Initials |-> <<"A">>,
      Suffix |-> Absent, CollectiveName |-> Absent,
      Identifier |-> [present |-> TRUE, Source |-> <<"O">>, text |-> <<"1">>],
      Affiliation |-> <<"U">>],
     [LastName |-> Absent, ForeName |-> Absent, Initials |-> Absent,
      Suffix |-> Absent, CollectiveName |-> <<"G">>,
      Identifier |-> NoIdentifier, Affiliation |-> Absent],
     [LastName |-> <<"T">>, ForeName |-> None, Initials |-> Absent,
      Suffix |-> Absent, CollectiveName |-> Absent,
      Identifier |-> NoIdentifier, Affiliation |-> Boilerplate \o <<"V">>]}

AuthorLists ==
    {<<[Type |-> Absent, Author |-> as]>> : as \in SeqUpTo(AuthorSamples, MaxPersons)}
    \cup {<<>>,
          <<[Type |-> Absent, Author |-> <<CHOOSE a \in AuthorSamples : a.LastName = <<"S">> >>],
            [Type |-> <<"e">>, Author |-> <<CHOOSE a \in AuthorSamples : a.LastName = <<"T">> >>]>>}

InvestigatorLists ==
    {NoInvestigatorList}
    \cup {[present |-> TRUE, Investigator |-> ps] : ps \in SeqUpTo(PersonSamples, MaxPersons)}

PersonalNameSubjectLists ==
    {NoPersonalNameSubjectList}
    \cup {[present |-> TRUE, PersonalNameSubject |-> ps] :
            ps \in SeqUpTo(PersonSamples, MaxPersons)}

DataBankSamples ==
    {[DataBankName |-> <<"C">>,
      AccessionNumberList |-> [present |-> TRUE, AccessionNumber |-> << <<"N", "1">> >>]],
     [DataBankName |-> <<"C">>, AccessionNumberList |-> NoAccessionNumberList],
     [DataBankName |-> Absent,
      AccessionNumberList |-> [present |-> TRUE, AccessionNumber |-> <<>>]]}

DataBankLists ==
    {NoDataBankList}
    \cup {[present |-> TRUE, DataBank |-> ds] : ds \in SeqUpTo(DataBankSamples, MaxDataBanks)}

ReferenceSamples ==
    {[Citation |-> <<"c", " ">>,
      ArticleIdList |-> [present |-> TRUE,
                         ArticleId |-> <<[IdType |-> PUBMED, text |-> <<" ", "5">>]>>]],
     [Citation |-> Absent, ArticleIdList |-> NoArticleIdList],
     [Citation |-> None,
      ArticleIdList |-> [present |-> TRUE,
                         ArticleId |-> <<[IdType |-> DOI, text |-> <<"d">>]>>]],
     [Citation |-> <<"c">>,
      ArticleIdList |-> [present |-> TRUE,
                         ArticleId |-> <<[IdType |-> PUBMED, text |-> None]>>]]}

ReferenceLists ==
    {NoReferenceList}
    \cup {[present |-> TRUE, Reference |-> rs] :
            rs \in SeqUpTo(ReferenceSamples, MaxReferences)}

ConceptSamples ==
    {[Type |-> <<"P">>, UI |-> <<"C", "1">>, text |-> <<"x">>],
     [Type |-> Absent, UI |-> <<"C", "1">>, text |-> <<"x">>],
     [Type |-> <<"P">>, UI |-> <<"C", "2">>, text |-> None]}

SupplMeshLists ==
    {NoSupplMeshList}
    \cup {[present |-> TRUE, SupplMeshName |-> cs] :
            cs \in SeqUpTo(ConceptSamples, MaxConcepts)}

ListArticles ==
    {[BasePubmedArticle EXCEPT !.MedlineCitation.Article.AuthorList = x] : x \in AuthorLists}
    \cup {[BasePubmedArticle EXCEPT !.MedlineCitation.InvestigatorList = x] :
            x \in InvestigatorLists}
    \cup {[BasePubmedArticle EXCEPT !.MedlineCitation.PersonalNameSubjectList = x] :
            x \in PersonalNameSubjectLists}
    \cup {[BasePubmedArticle EXCEPT !.MedlineCitation.Article.DataBankList = x] :
            x \in DataBankLists}
    \cup {[BasePubmedArticle EXCEPT !.PubmedData.ReferenceList = x] : x \in ReferenceLists}
    \cup {[BasePubmedArticle EXCEPT !.MedlineCitation.SupplMeshList = x] :
            x \in SupplMeshLists}
    \cup {[BasePubmedArticle EXCEPT !.PubmedData.History = x] : x \in Histories}
    \cup {[BasePubmedArticle EXCEPT !.MedlineCitation.Article.GrantList = x] :
            x \in GrantLists}
    \cup {[BasePubmedArticle EXCEPT !.MedlineCitation.Article.ELocationID = x] :
            x \in ELocationIDs}

MedlineJournalInfos ==
    {NoMedlineJournalInfo}
    \cup [present : {TRUE},
          MedlineTA : {Absent, None, <<"J", " ">>},
          NlmUniqueID : {Absent, <<"2">>},
          ISSNLinking : {Absent, None, <<"1">>},
          Country : {None, <<"U">>}]

LanguageTexts == {None, <<"e", "n", "g">>, <<"f", "r", "e">>}

KeywordLists ==
    {NoKeywordList}
    \cup {[present |-> TRUE, Keyword |-> ks] :
            ks \in SeqUpTo({None, <<"k">>, <<"m">>}, MaxTerms)}

PublicationTypeLists ==
    {NoPublicationTypeList}
    \cup {[present |-> TRUE, PublicationType |-> ts] :
            ts \in SeqUpTo([UI : {Absent, <<"D", "1">>}, text : {None, <<" ", "R">>}],
                           MaxTerms)}

ChemicalSamples ==
    {[RegistryNumber |-> <<"0">>,
      NameOfSubstance |-> [present |-> TRUE, UI |-> <<"D", "2">>, text |-> <<"w", " ">>]],
     [RegistryNumber |-> None,
      NameOfSubstance |-> [present |-> TRUE, UI |-> Absent, text |-> <<"w">>]],
     [RegistryNumber |-> Absent, NameOfSubstance |-> NoNameOfSubstance]}

ChemicalLists ==
    {NoChemicalList}
    \cup {[present |-> TRUE, Chemical |-> cs] : cs \in SeqUpTo(ChemicalSamples, MaxTerms)}

OtherIDTexts == {None, <<"P", "M", "C", "1">>, <<"N", "2">>, <<"P", "M", "C", "3">>}

FieldArticles ==
    {[BasePubmedArticle EXCEPT !.MedlineCitation.PMID = x] : x \in PMIDs}
    \cup {[BasePubmedArticle EXCEPT !.MedlineCitation.MedlineJournalInfo = x] :
            x \in MedlineJournalInfos}
    \cup {[BasePubmedArticle EXCEPT !.MedlineCitation.Article.Language = x] :
            x \in SeqUpTo(LanguageTexts, MaxTerms)}
    \cup {[BasePubmedArticle EXCEPT !.MedlineCitation.Article.MedlinePgn = x] :
            x \in {None, <<"1", "-", "3">>}}
    \cup {[BasePubmedArticle EXCEPT !.MedlineCitation.KeywordList = x] : x \in KeywordLists}
    \cup {[BasePubmedArticle EXCEPT !.MedlineCitation.Article.PublicationTypeList = x] :
            x \in PublicationTypeLists}
    \cup {[BasePubmedArticle EXCEPT !.MedlineCitation.ChemicalList = x] :
            x \in ChemicalLists}
    \cup {[BasePubmedArticle EXCEPT !.MedlineCitation.OtherID = x] :
            x \in SeqUpTo(OtherIDTexts, MaxTerms)}
    \cup {[BasePubmedArticle EXCEPT !.MedlineCitation.CoiStatement = x] :
            x \in {None, <<" ", "x", " ">>}}
    \cup {[BasePubmedArticle EXCEPT !.PubmedData.PublicationStatus = None]}

ListSwitches ==
    {"author_list", "reference_list", "history_dates_list", "investigator_list",
     "elocation_ids_list", "databank_list", "personal_subject_names_list",
     "supplementary_concepts_list", "grant_ids_list"}

\* The configuration with the switches of `on` set
ConfigWith(on) ==
    [k \in DOMAIN DefaultConfig |-> IF k \in on THEN TRUE ELSE DefaultConfig[k]]

ListConfigs ==
    {ConfigWith({}), ConfigWith(ListSwitches)}
    \cup {ConfigWith({k}) : k \in ListSwitches}

InitRecord ==
    /\ tree = EmptyTree
    /\ pubmed_article \in ListArticles \cup FieldArticles
    /\ date_xml = BaseDate
    /\ config \in ListConfigs
    /\ called = "none"
    /\ result = Return(<<>>)

NextRecord == Call_parse_article_info

SpecRecord == InitRecord /\ [][NextRecord]_vars

\* The extraction of the citation under test with the switch k off
StringMode(k) == parse_article_info(pubmed_article, [config EXCEPT ![k] = FALSE])

\* Entries joined by ";", the fields `keys` of an entry joined by "|"
RenderRecords(list, keys) ==
    join(<<";">>, [i \in 1..Len(list) |->
                     join(<<"|">>, [k \in 1..Len(keys) |-> list[i][keys[k]]])])

\* The non-empty PMIDs joined by ";"
RenderReferences(list) ==
    join(<<";">>, SelectSeq([i \in 1..Len(list) |-> list[i].pmid],
                            LAMBDA x : x # EmptyStr))

\* name/accession for every accession number, the name alone when there is none
RenderDatabanks(list) ==
    LET NameText(name) == IF name = None THEN EmptyStr ELSE name[2]
    IN  join(<<";">>,
             Flatten([i \in 1..Len(list) |->
                        IF list[i].accession_numbers # <<>>
                        THEN [j \in 1..Len(list[i].accession_numbers) |->
                                NameText(list[i].name) \o <<"/">>
                                \o list[i].accession_numbers[j]]
                        ELSE <<NameText(list[i].name)>>]))

PersonKeys == <<"lastname", "forename", "initials", "suffix">>

\* Every sub-field that the joined forms concatenate has a value: the
\* attributes of SupplMeshName, ELocationID and PubMedPubDate are there, a
\* DataBank has its DataBankName, and no SupplMeshName, Grant child or Year
\* is without text
SubFieldsPresent ==
    LET medline == pubmed_article.MedlineCitation
        names == medline.SupplMeshList.SupplMeshName
        ids == medline.Article.ELocationID
        grants == medline.Article.GrantList.Grant
        dates == pubmed_article.PubmedData.History.PubMedPubDate
        banks == medline.Article.DataBankList.DataBank
    IN  /\ \A i \in 1..Len(banks) : banks[i].DataBankName \notin {Absent, None}
        /\ \A i \in 1..Len(names) :
              names[i].Type # Absent /\ names[i].UI # Absent /\ names[i].text # None
        /\ \A i \in 1..Len(ids) : ids[i].EIdType # Absent
        /\ \A i \in 1..Len(grants) :
              None \notin {grants[i].GrantID, grants[i].Acronym, grants[i].Country,
                           grants[i].Agency}
        /\ \A i \in 1..Len(dates) : dates[i].PubStatus # Absent /\ dates[i].Year # None

\* C16: for each switchable field, when the extraction with its switch on
\* succeeds, the extraction with the switch off succeeds too and its value
\* is the list-mode value rendered by the field's join rule (stated for
\* citations whose sub-fields all have a value).
C16_ListStringRoundTrip ==
    (called = "parse_article_info" /\ result.ok /\ SubFieldsPresent)
    => LET v == result.val IN
       /\ config.author_list
            => /\ StringMode("author_list").ok
               /\ StringMode("author_list").val.authors =
                    RenderRecords(v.authors,
                                  <<"lastname", "forename", "initials", "suffix",
                                    "author_type", "identifier_type", "identifier",
                                    "corporate">>)
       /\ config.reference_list
            => /\ StringMode("reference_list").ok
               /\ StringMode("reference_list").val.references =
                    RenderReferences(v.references)
       /\ config.history_dates_list
            => /\ StringMode("history_dates_list").ok
               /\ StringMode("history_dates_list").val.history_dates =
                    RenderRecords(v.history_dates, <<"status", "date">>)
       /\ config.investigator_list
            => /\ StringMode("investigator_list").ok
               /\ StringMode("investigator_list").val.investigators =
                    RenderRecords(v.investigators, PersonKeys)
       /\ config.elocation_ids_list
            => /\ StringMode("elocation_ids_list").ok
               /\ StringMode("elocation_ids_list").val.elocation_ids =
                    RenderRecords(v.elocation_ids, <<"type", "ELocationID">>)
       /\ config.databank_list
            => /\ StringMode("databank_list").ok
               /\ StringMode("databank_list").val.databanks =
                    RenderDatabanks(v.databanks)
       /\ config.personal_subject_names_list
            => /\ StringMode("personal_subject_names_list").ok
               /\ StringMode("personal_subject_names_list").val.personal_subject_names =
                    RenderRecords(v.personal_subject_names, PersonKeys)
       /\ config.supplementary_concepts_list
            => /\ StringMode("supplementary_concepts_list").ok
               /\ StringMode("supplementary_concepts_list").val.supplementary_concepts =
                    RenderRecords(v.supplementary_concepts,
                                  <<"type", "UI", "supplementary_concept">>)
       /\ config.grant_ids_list
            => /\ StringMode("grant_ids_list").ok
               /\ StringMode("grant_ids_list").val.grant_ids =
                    RenderRecords(v.grant_ids,
                                  <<"grant_id", "grant_acronym", "country", "agency">>)

\* C17: in the default configuration every field of an article record other
\* than delete is a string, never None.
C17_FieldsAreStrings ==
    (called = "parse_article_info" /\ config = DefaultConfig /\ result.ok)
    => \A k \in DOMAIN result.val \ {"delete"} : result.val[k] # None

----------------------------------------------------------------------------
(* One document: parse_medline_xml and parse_medline_grant_id *)

MedlineSamples ==
    {BaseMedlineCitation,
     [BaseMedlineCitation EXCEPT
        !.PMID = <<"8">>,
        !.Article.GrantList =
            [present |-> TRUE,
             Grant |-> <<[GrantID |-> <<"G">>, Acronym |-> <<"H", "L">>,
                          Country |-> <<"U">>, Agency |-> <<"N">>]>>]]}

ArticleSamples ==
    {[MedlineCitation |-> m, PubmedData |-> BasePubmedData] : m \in MedlineSamples}
    \cup {[MedlineCitation |-> BaseMedlineCitation, PubmedData |-> NoPubmedData],
          [MedlineCitation |-> NoMedlineCitation, PubmedData |-> BasePubmedData],
          [MedlineCitation |-> [BaseMedlineCitation EXCEPT !.Article = NoArticle],
           PubmedData |-> BasePubmedData]}

DeleteTexts == {None, <<" ", "9", " ">>, <<"8">>}

Trees ==
    [MedlineCitationSet : SeqUpTo(MedlineSamples, MaxCitations),
     PubmedArticle : SeqUpTo(ArticleSamples, MaxCitations),
     DeleteCitation : SeqUpTo(DeleteTexts, MaxDeletes)]

InitDriver ==
    /\ tree \in Trees
    /\ pubmed_article = BasePubmedArticle
    /\ date_xml = BaseDate
    /\ config = DefaultConfig
    /\ called = "none"
    /\ result = Return(<<>>)

Call_parse_medline_xml ==
    /\ called = "none"
    /\ called' = "parse_medline_xml"
    /\ result' = parse_medline_xml(tree, config)
    /\ tree' = tree_after_parse_medline_xml(tree, config)
    /\ UNCHANGED <<pubmed_article, date_xml, config>>

Call_parse_medline_grant_id ==
    /\ called = "none"
    /\ called' = "parse_medline_grant_id"
    /\ result' = parse_medline_grant_id(tree)
    /\ UNCHANGED <<tree, pubmed_article, date_xml, config>>

NextDriver == Call_parse_medline_xml \/ Call_parse_medline_grant_id

SpecDriver == InitDriver /\ [][NextDriver]_vars

\* The number of citation nodes of the document: those of the primary path,
\* or, when there is none, those of the alternate path
NumCitations ==
    IF Len(tree.MedlineCitationSet) > 0 THEN Len(tree.MedlineCitationSet)
    ELSE Len(tree.PubmedArticle)

NumDeletes == Len(tree.DeleteCitation)

\* Every delete notice has text, and every citation of the alternate shape
\* has its MedlineCitation and Article
TreeWellFormed ==
    /\ \A j \in 1..NumDeletes : tree.DeleteCitation[j] # None
    /\ \A i \in 1..Len(tree.PubmedArticle) :
          /\ tree.PubmedArticle[i].MedlineCitation.present
          /\ tree.PubmedArticle[i].MedlineCitation.Article.present

\* C1 (as claimed): for a tree with n citation nodes and d delete notices,
\* parse_medline_xml returns n + d records, the n article records first
\* (delete = False), then the d delete records (delete = True), each group in
\* document order.
C1_RecordsPerNode ==
    (called = "parse_medline_xml" /\ TreeWellFormed) =>
        /\ result.ok
        /\ Len(result.val) = NumCitations + NumDeletes
        /\ \A i \in 1..NumCitations : result.val[i].delete = FALSE
        /\ \A j \in 1..NumDeletes :
              /\ result.val[NumCitations + j].delete = TRUE
              /\ result.val[NumCitations + j].pmid = strip(tree.DeleteCitation[j])

\* C2: the record of every delete notice has delete = True, pmid equal to the
\* notice's trimmed text and the unset marker NaN, which is not "", in every
\* other field.
C2_DeleteRecords ==
    (called = "parse_medline_xml" /\ result.ok) =>
        /\ Len(result.val) >= NumDeletes
        /\ \A j \in 1..NumDeletes :
              LET r == result.val[Len(result.val) - NumDeletes + j] IN
              /\ r.delete = TRUE
              /\ r.pmid = strip(tree.DeleteCitation[j])
              /\ DOMAIN r = DeleteKeys \cup {"pmid", "delete"}
              /\ \A k \in DeleteKeys : r[k] = NaN /\ r[k] # EmptyStr

\* C2 witness: a document with an article and a delete notice whose text has
\* surrounding whitespace has been parsed.
C2_Witness ==
    /\ called = "parse_medline_xml"
    /\ result.ok
    /\ Len(tree.PubmedArticle) >= 1
    /\ tree.DeleteCitation = << <<"8">>, <<" ", "9", " ">> >>
    /\ result.val[Len(result.val)].pmid = <<"9">>
    /\ result.val[Len(result.val)].delete = TRUE

\* C3 (as claimed): when the primary path finds citation nodes, both drivers
\* process exactly those nodes without error: parse_medline_xml returns one
\* article record per node, parse_medline_grant_id the grants of those nodes.
C3_PrimaryShapeAccepted ==
    (Len(tree.MedlineCitationSet) >= 1 /\ TreeWellFormed) =>
        /\ called = "parse_medline_xml" =>
              /\ result.ok
              /\ Len(result.val) = Len(tree.MedlineCitationSet) + NumDeletes
        /\ called = "parse_medline_grant_id" =>
              /\ result.ok
              /\ Len(result.val) =
                    Len(Flatten([i \in 1..Len(tree.MedlineCitationSet) |->
                                    tree.MedlineCitationSet[i].Article.GrantList.Grant]))

\* A citation of the alternate shape without MedlineCitation, or whose
\* MedlineCitation has no Article
Malformed(node) ==
    ~node.MedlineCitation.present \/ ~node.MedlineCitation.Article.present

\* C19: when a citation node of the alternate shape is malformed, wherever it
\* stands among the others, parse_medline_xml raises and returns no list.
C19_MalformedCitationFails ==
    (/\ called = "parse_medline_xml"
     /\ Len(tree.MedlineCitationSet) = 0
     /\ \E i \in 1..Len(tree.PubmedArticle) : Malformed(tree.PubmedArticle[i]))
    => ~result.ok

\* C19 witness: a citation without Article after a well-formed one.
C19_Witness ==
    /\ called = "parse_medline_xml"
    /\ Len(tree.MedlineCitationSet) = 0
    /\ Len(tree.PubmedArticle) = 2
    /\ tree.PubmedArticle[1] = BasePubmedArticle
    /\ tree.PubmedArticle[2].MedlineCitation.present
    /\ ~tree.PubmedArticle[2].MedlineCitation.Article.present
    /\ ~result.ok

\* No citation node by either path
NoCitations == Len(tree.MedlineCitationSet) = 0 /\ Len(tree.PubmedArticle) = 0

DeleteTextsPresent == \A j \in 1..NumDeletes : tree.DeleteCitation[j] # None

----------------------------------------------------------------------------
(* The grants of one document: parse_medline_grant_id *)

GrantCitations ==
    {BaseMedlineCitation,
     [BaseMedlineCitation EXCEPT
        !.PMID = <<"8">>,
        !.Article.GrantList =
            [present |-> TRUE,
             Grant |-> <<[GrantID |-> <<"G">>, Acronym |-> <<"H", "L">>,
                          Country |-> <<"U">>, Agency |-> <<"N">>],
                         [GrantID |-> Absent, Acronym |-> Absent,
                          Country |-> Absent, Agency |-> Absent]>>]],
     [BaseMedlineCitation EXCEPT
        !.PMID = <<"9">>,
        !.Article.GrantList =
            [present |-> TRUE,
             Grant |-> <<[GrantID |-> <<"K">>, Acronym |-> Absent,
                          Country |-> <<"U">>, Agency |-> Absent]>>]],
     [BaseMedlineCitation EXCEPT
        !.PMID = <<"6">>,
        !.Article.GrantList = [present |-> TRUE, Grant |-> <<>>]]}

GrantTrees ==
    [MedlineCitationSet : SeqUpTo({BaseMedlineCitation,
                                   CHOOSE m \in GrantCitations : m.PMID = <<"9">>},
                                  MaxCitations),
     PubmedArticle : SeqUpTo({[MedlineCitation |-> m, PubmedData |-> BasePubmedData] :
                                 m \in GrantCitations},
                             MaxCitations),
     DeleteCitation : {<<>>}]

InitGrants ==
    /\ tree \in GrantTrees
    /\ pubmed_article = BasePubmedArticle
    /\ date_xml = BaseDate
    /\ config = DefaultConfig
    /\ called = "none"
    /\ result = Return(<<>>)

NextGrants == Call_parse_medline_grant_id

SpecGrants == InitGrants /\ [][NextGrants]_vars

\* The MedlineCitation elements of the document's citation nodes, in
\* document order
TheCitations ==
    IF Len(tree.MedlineCitationSet) > 0 THEN tree.MedlineCitationSet
    ELSE [i \in 1..Len(tree.PubmedArticle) |-> tree.PubmedArticle[i].MedlineCitation]

\* A sub-field of a grant as the claim renders it: "" for an absent element
SubField(text) == IF text = Absent THEN EmptyStr ELSE text

\* The grants of one citation as the claim describes them, in grant order
GrantsOwnedBy(m) ==
    [j \in 1..Len(m.Article.GrantList.Grant) |->
        LET g == m.Article.GrantList.Grant[j] IN
        [pmid |-> m.PMID, grant_id |-> SubField(g.GrantID),
         grant_acronym |-> SubField(g.Acronym), country |-> SubField(g.Country),
         agency |-> SubField(g.Agency)]]

RECURSIVE SumLen(_)
SumLen(lists) == IF lists = <<>> THEN 0 ELSE Len(Head(lists)) + SumLen(Tail(lists))

\* C21 (as claimed): parse_medline_grant_id returns the grants of every
\* citation, citations in document order and each citation's grants in
\* document order: as many entries as the citations have grants, each with
\* exactly the fields pmid, grant_id, grant_acronym, country and agency, pmid
\* being the PMID of the owning citation and an absent sub-field being "".
C21_GrantsConcatenated ==
    called = "parse_medline_grant_id" =>
        LET owned == [i \in 1..Len(TheCitations) |-> GrantsOwnedBy(TheCitations[i])] IN
        /\ result.ok
        /\ Len(result.val) = SumLen(owned)
        /\ result.val = Flatten(owned)
        /\ \A k \in 1..Len(result.val) :
              DOMAIN result.val[k] =
                 {"pmid", "grant_id", "grant_acronym", "country", "agency"}

\* The same statement for the documents whose citation nodes are found by the
\* alternate path (.//PubmedArticle)
GrantsConcatenated_AlternatePath ==
    (called = "parse_medline_grant_id" /\ Len(tree.MedlineCitationSet) = 0) =>
        LET owned == [i \in 1..Len(TheCitations) |-> GrantsOwnedBy(TheCitations[i])] IN
        /\ result.ok
        /\ Len(result.val) = SumLen(owned)
        /\ result.val = Flatten(owned)
        /\ \A k \in 1..Len(result.val) :
              DOMAIN result.val[k] =
                 {"pmid", "grant_id", "grant_acronym", "country", "agency"}

\* Two citations with grants, the first with two of them, have been read
GrantsOfTwoCitationsRead ==
    /\ called = "parse_medline_grant_id"
    /\ Len(tree.MedlineCitationSet) = 0
    /\ Len(tree.PubmedArticle) = 2
    /\ tree.PubmedArticle[1].MedlineCitation.PMID = <<"8">>
    /\ tree.PubmedArticle[2].MedlineCitation.PMID = <<"9">>
    /\ result.ok
    /\ Len(result.val) = 3
    /\ result.val[2].pmid = <<"8">> /\ result.val[2].grant_id = EmptyStr
    /\ result.val[3].pmid = <<"9">> /\ result.val[3].grant_id = <<"K">>

----------------------------------------------------------------------------
(* Two runs over one document *)

\* A citation whose repeated children come in pairs with distinct texts
RichCitation ==
    [MedlineCitation |->
        [BaseMedlineCitation EXCEPT
           !.PMID = <<"5">>,
           !.Article.AuthorList =
               <<[Type |-> Absent,
                  Author |-> <<[LastName |-> <<"S">>, ForeName |-> <<"A">>,
                                Initials |-> <<"A">>, Suffix |-> Absent,
                                CollectiveName |-> Absent, Identifier |-> NoIdentifier,
                                Affiliation |-> <<"U">>],
                               [LastName |-> <<"T">>, ForeName |-> <<"B">>,
                                Initials |-> <<"B">>, Suffix |-> Absent,
                                CollectiveName |-> Absent, Identifier |-> NoIdentifier,
                                Affiliation |-> <<"V">>]>>]>>,
           !.Article.GrantList =
               [present |-> TRUE,
                Grant |-> <<[GrantID |-> <<"G">>, Acronym |-> <<"H", "L">>,
                             Country |-> <<"U">>, Agency |-> <<"N">>],
                            [GrantID |-> <<"K">>, Acronym |-> <<"H", "L">>,
                             Country |-> <<"U">>, Agency |-> <<"N">>]>>],
           !.Article.ELocationID =
               <<[EIdType |-> PII, text |-> <<"a">>], [EIdType |-> DOI, text |-> <<"b">>]>>,
           !.Article.Language = << <<"e", "n", "g">>, <<"f", "r", "e">> >>,
           !.Article.PublicationTypeList =
               [present |-> TRUE,
                PublicationType |-> <<[UI |-> <<"D", "1">>, text |-> <<"R">>],
                                      [UI |-> <<"D", "2">>, text |-> <<"V">>]>>],
           !.Article.Journal.Title = << <<"J">>, <<"K">> >>,
           !.MeshHeadingList =
               [present |-> TRUE,
                MeshHeading |->
                   <<[DescriptorName |-> [UI |-> <<"D", "1">>, MajorTopicYN |-> Y,
                                          text |-> <<"a">>],
                      QualifierName |-> <<[UI |-> <<"Q", "1">>, MajorTopicYN |-> Y,
                                           text |-> <<"x">>]>>],
                     [DescriptorName |-> [UI |-> <<"D", "3">>, MajorTopicYN |-> Y,
                                          text |-> <<"b">>],
                      QualifierName |-> <<[UI |-> <<"Q", "2">>, MajorTopicYN |-> Y,
                                           text |-> <<"y">>]>>]>>],
           !.InvestigatorList =
               [present |-> TRUE,
                Investigator |-> <<[LastName |-> <<"S">>, ForeName |-> <<"A">>,
                                    Initials |-> <<"A">>, Suffix |-> Absent],
                                   [LastName |-> <<"T">>, ForeName |-> <<"B">>,
                                    Initials |-> <<"B">>, Suffix |-> Absent]>>],
           !.SupplMeshList =
               [present |-> TRUE,
                SupplMeshName |-> <<[Type |-> <<"P">>, UI |-> <<"C", "1">>, text |-> <<"x">>],
                                    [Type |-> <<"P">>, UI |-> <<"C", "2">>, text |-> <<"y">>]>>],
           !.KeywordList = [present |-> TRUE, Keyword |-> << <<"k">>, <<"m">> >>],
           !.ChemicalList =
               [present |-> TRUE,
                Chemical |-> <<[RegistryNumber |-> <<"0">>,
                                NameOfSubstance |-> [present |-> TRUE, UI |-> <<"D", "2">>,
                                                     text |-> <<"w">>]],
                               [RegistryNumber |-> <<"1">>,
                                NameOfSubstance |-> [present |-> TRUE, UI |-> <<"D", "4">>,
                                                     text |-> <<"z">>]]>>],
           !.OtherID = << <<"P", "M", "C", "1">>, <<"N", "2">>, <<"N", "3">> >>],
     PubmedData |->
        [BasePubmedData EXCEPT
           !.History = [present |-> TRUE,
                        PubMedPubDate |-> <<PubMedPubDate(BaseDate, <<"r">>),
                                            PubMedPubDate(FullDate, <<"a">>)>>],
           !.ReferenceList =
               [present |-> TRUE,
                Reference |->
                   <<[Citation |-> <<"c">>,
                      ArticleIdList |-> [present |-> TRUE,
                                         ArticleId |-> <<[IdType |-> PUBMED,
                                                          text |-> <<"5">>]>>]],
                     [Citation |-> <<"d">>,
                      ArticleIdList |-> [present |-> TRUE,
                                         ArticleId |-> <<[IdType |-> PUBMED,
                                                          text |-> <<"6">>]>>]]>>]]]

\* A citation with two databanks
BankCitation ==
    [BasePubmedArticle EXCEPT
       !.MedlineCitation.PMID = <<"4">>,
       !.MedlineCitation.Article.DataBankList =
           [present |-> TRUE,
            DataBank |-> <<[DataBankName |-> <<"C">>,
                            AccessionNumberList |->
                               [present |-> TRUE, AccessionNumber |-> << <<"N", "1">> >>]],
                           [DataBankName |-> <<"D">>,
                            AccessionNumberList |-> NoAccessionNumberList]>>]]

\* A citation with a personal name as subject
NamesCitation ==
    [BasePubmedArticle EXCEPT
       !.MedlineCitation.PMID = <<"3">>,
       !.MedlineCitation.PersonalNameSubjectList =
           [present |-> TRUE,
            PersonalNameSubject |-> <<[LastName |-> <<"S">>, ForeName |-> <<"A">>,
                                       Initials |-> <<"A">>, Suffix |-> Absent]>>]]

RerunTrees ==
    [MedlineCitationSet : {<<>>},
     PubmedArticle : SeqUpTo({BasePubmedArticle, RichCitation, BankCitation, NamesCitation},
                             MaxCitations),
     DeleteCitation : SeqUpTo({<<"8">>}, MaxDeletes)]

RerunConfigs ==
    {DefaultConfig, ConfigWith(ListSwitches), ConfigWith({"author_list"}),
     [DefaultConfig EXCEPT !.nlm_category = TRUE, !.year_info_only = FALSE,
                           !.parse_time = TRUE]}

InitRerun ==
    /\ tree \in RerunTrees
    /\ pubmed_article = BasePubmedArticle
    /\ date_xml = BaseDate
    /\ config \in RerunConfigs
    /\ called = "none"
    /\ result = Return(<<>>)

\* A second call of parse_medline_xml on the tree of the first
Rerun_parse_medline_xml ==
    /\ called = "parse_medline_xml"
    /\ called' = "parse_medline_xml again"
    /\ result' = parse_medline_xml(tree, config)
    /\ tree' = tree_after_parse_medline_xml(tree, config)
    /\ UNCHANGED <<pubmed_article, date_xml, config>>

\* A second call of parse_medline_grant_id on the tree of the first
Rerun_parse_medline_grant_id ==
    /\ called = "parse_medline_grant_id"
    /\ called' = "parse_medline_grant_id again"
    /\ result' = parse_medline_grant_id(tree)
    /\ UNCHANGED <<tree, pubmed_article, date_xml, config>>

NextRerun ==
    \/ Call_parse_medline_xml
    \/ Call_parse_medline_grant_id
    \/ Rerun_parse_medline_xml
    \/ Rerun_parse_medline_grant_id

SpecRerun == InitRerun /\ [][NextRerun]_vars

\* The texts that tell the first child from the second, per field of the
\* record of RichCitation
Markers ==
    [authors |-> << <<"S">>, <<"T">> >>,
     affiliations |-> << <<"U">>, <<"V">> >>,
     investigators |-> << <<"S">>, <<"T">> >>,
     keywords |-> << <<"k">>, <<"m">> >>,
     languages |-> << <<"e", "n", "g">>, <<"f", "r", "e">> >>,
     publication_types |-> << <<"R">>, <<"V">> >>,
     chemical_list |-> << <<"w">>, <<"z">> >>,
     mesh_terms |-> << <<"a">>, <<"b">> >>,
     mesh_subheadings |-> << <<"x">>, <<"y">> >>,
     mesh_major_topics |-> << <<"x">>, <<"y">> >>,
     mesh_full_terms |-> << <<"a">>, <<"b">> >>,
     other_id |-> << <<"N", "2">>, <<"N", "3">> >>,
     journal |-> << <<"J">>, <<"K">> >>,
     history_dates |-> << <<"r">>, <<"a">> >>,
     elocation_ids |-> << <<"a">>, <<"b">> >>,
     references |-> << <<"5">>, <<"6">> >>,
     supplementary_concepts |-> << <<"x">>, <<"y">> >>,
     grant_ids |-> << <<"G">>, <<"K">> >>]

\* The switch that turns a field into a list
SwitchOf ==
    [authors |-> "author_list", references |-> "reference_list",
     history_dates |-> "history_dates_list", investigators |-> "investigator_list",
     elocation_ids |-> "elocation_ids_list",
     supplementary_concepts |-> "supplementary_concepts_list",
     grant_ids |-> "grant_ids_list"]

\* The places of sub in the string s
Places(s, sub) ==
    {i \in 1..(Len(s) - Len(sub) + 1) : SubSeq(s, i, i + Len(sub) - 1) = sub}

\* a and b each occur once in the string s, a before b
OnceAndBefore(s, a, b) ==
    /\ Cardinality(Places(s, a)) = 1
    /\ Cardinality(Places(s, b)) = 1
    /\ \A i \in Places(s, a) : \A j \in Places(s, b) : i < j

\* The sub-record entry has the text in one of its fields
Holds(entry, text) == \E k \in DOMAIN entry : entry[k] = text

\* The record of RichCitation has the texts of each pair of children in the
\* order of the children, in its lists and in its joined strings
RichInDocumentOrder(record, cfg) ==
    \A f \in DOMAIN Markers \cap DOMAIN record :
        LET v == record[f]
            a == Markers[f][1]
            b == Markers[f][2]
        IN  IF f \in DOMAIN SwitchOf /\ cfg[SwitchOf[f]]
            THEN Len(v) = 2 /\ Holds(v[1], a) /\ Holds(v[2], b) /\ ~Holds(v[1], b)
            ELSE OnceAndBefore(v, a, b)

\* The list of databanks of BankCitation is in the order of its DataBank
\* elements
BanksInDocumentOrder(record, cfg) ==
    cfg.databank_list =>
        /\ Len(record.databanks) = 2
        /\ record.databanks[1].name = Element(<<"C">>)
        /\ record.databanks[2].name = Element(<<"D">>)
        /\ record.databanks[1].accession_numbers = << <<"N", "1">> >>

\* The grant ids of the document, citation after citation
GrantIdsOfDocument ==
    Flatten([i \in 1..Len(tree.PubmedArticle) |->
               LET grants == tree.PubmedArticle[i].MedlineCitation.Article.GrantList.Grant
               IN  [j \in 1..Len(grants) |-> grants[j].GrantID]])

\* The output at hand is in document order: citations, then delete notices,
\* and inside every record the lists and the joined strings
DocumentOrder ==
    /\ (called \in {"parse_medline_xml", "parse_medline_xml again"} /\ result.ok) =>
          /\ Len(result.val) = Len(tree.PubmedArticle) + Len(tree.DeleteCitation)
          /\ \A i \in 1..Len(tree.PubmedArticle) :
                /\ result.val[i].pmid = tree.PubmedArticle[i].MedlineCitation.PMID
                /\ tree.PubmedArticle[i] = RichCitation
                      => RichInDocumentOrder(result.val[i], config)
                /\ tree.PubmedArticle[i] = BankCitation
                      => BanksInDocumentOrder(result.val[i], config)
          /\ \A j \in 1..Len(tree.DeleteCitation) :
                result.val[Len(tree.PubmedArticle) + j].pmid = tree.DeleteCitation[j]
    /\ (called \in {"parse_medline_grant_id", "parse_medline_grant_id again"} /\ result.ok) =>
          [k \in 1..Len(result.val) |-> result.val[k].grant_id] = GrantIdsOfDocument

----------------------------------------------------------------------------
(* The citation node after the extraction *)

----------------------------------------------------------------------------
(* The list-mode values of the repeated sub-records *)

\* The text of a name part as the sub-record holds it: trimmed, "" for a
\* part that is absent or empty
NamePartText(leaf) == IF leaf \in {Absent, None} THEN EmptyStr ELSE strip(leaf)

\* Every repeated child of the citation has the attributes and the text that
\* its sub-record is made of
SubRecordsWellFormed ==
    LET ids == pubmed_article.MedlineCitation.Article.ELocationID
        dates == pubmed_article.PubmedData.History.PubMedPubDate
    IN  /\ SubFieldsPresent
        /\ \A i \in 1..Len(ids) : ids[i].text # None
        /\ \A i \in 1..Len(dates) : dates[i].Year # Absent

\* The persons of a list-mode value are those of the child elements, one
\* entry per child and in their order
PersonsAsClaimed(value, children) ==
    /\ Len(value) = Len(children)
    /\ \A i \in 1..Len(children) :
          /\ DOMAIN value[i] = {"lastname", "forename", "initials", "suffix"}
          /\ value[i].lastname = NamePartText(children[i].LastName)
          /\ value[i].forename = NamePartText(children[i].ForeName)
          /\ value[i].initials = NamePartText(children[i].Initials)
          /\ value[i].suffix = NamePartText(children[i].Suffix)

\* The list-mode value of field f in record v is as claimed: empty without
\* the parent list, else one sub-record per child, in document order, made of
\* the child's text and attribute values
ListValueAsClaimed(f, v) ==
    LET medline == pubmed_article.MedlineCitation IN
    CASE f = "investigators" ->
           PersonsAsClaimed(v.investigators, medline.InvestigatorList.Investigator)
      [] f = "personal_subject_names" ->
           PersonsAsClaimed(v.personal_subject_names,
                            medline.PersonalNameSubjectList.PersonalNameSubject)
      [] f = "history_dates" ->
           LET children == pubmed_article.PubmedData.History.PubMedPubDate IN
           /\ Len(v.history_dates) = Len(children)
           /\ \A i \in 1..Len(children) :
                 /\ DOMAIN v.history_dates[i] = {"status", "date"}
                 /\ v.history_dates[i].status = children[i].PubStatus
                 /\ v.history_dates[i].date =
                       get_date_info(children[i], config.year_info_only,
                                     config.parse_time).val
      [] f = "supplementary_concepts" ->
           LET children == medline.SupplMeshList.SupplMeshName IN
           /\ Len(v.supplementary_concepts) = Len(children)
           /\ \A i \in 1..Len(children) :
                 v.supplementary_concepts[i] =
                    [type |-> children[i].Type, UI |-> children[i].UI,
                     supplementary_concept |-> children[i].text]
      [] f = "databanks" ->
           LET children == medline.Article.DataBankList.DataBank IN
           /\ Len(v.databanks) = Len(children)
           /\ \A i \in 1..Len(children) :
                 v.databanks[i] =
                    [name |-> children[i].DataBankName,
                     accession_numbers |->
                        children[i].AccessionNumberList.AccessionNumber]
      [] f = "elocation_ids" ->
           LET children == medline.Article.ELocationID IN
           /\ Len(v.elocation_ids) = Len(children)
           /\ \A i \in 1..Len(children) :
                 v.elocation_ids[i] =
                    [type |-> children[i].EIdType,
                     ELocationID |-> strip(children[i].text)]

\* With every list switch on, the extraction of a citation that differs from
\* the well-formed one in one kind of sub-record returns, and the fields of
\* `fields` have the list-mode value claimed
ListModeStructure(fields) ==
    (/\ called = "parse_article_info"
     /\ config = ConfigWith(ListSwitches)
     /\ pubmed_article \in ListArticles
     /\ SubRecordsWellFormed)
    => /\ result.ok
       /\ \A f \in fields : ListValueAsClaimed(f, result.val)

\* C24 (as claimed): for history dates, investigators, personal subject
\* names, supplementary concepts, databanks and e-location ids, the list-mode
\* value is the empty sequence when the parent list element is absent and
\* otherwise one structured sub-record per child element, in document order,
\* whose fields are the element's text or attribute values.
C24_ListModeStructure ==
    ListModeStructure({"history_dates", "investigators", "personal_subject_names",
                       "supplementary_concepts", "databanks", "elocation_ids"})

\* The same for the citations without PersonalNameSubject and DataBank
\* entries
ListModeStructure_OtherLists ==
    LET medline == pubmed_article.MedlineCitation IN
    (/\ medline.PersonalNameSubjectList.PersonalNameSubject = <<>>
     /\ medline.Article.DataBankList.DataBank = <<>>)
    => ListModeStructure({"history_dates", "investigators", "personal_subject_names",
                          "supplementary_concepts", "databanks", "elocation_ids"})

\* The extraction of a citation with a PersonalNameSubject entry has failed
\* in list mode
PersonalNamesListFails ==
    /\ called = "parse_article_info"
    /\ config = ConfigWith(ListSwitches)
    /\ Len(pubmed_article.MedlineCitation.PersonalNameSubjectList.PersonalNameSubject) = 1
    /\ ~result.ok

\* The list-mode databanks of a citation hold an element where the name of
\* the databank is claimed
DatabankNameIsElement ==
    /\ called = "parse_article_info"
    /\ config = ConfigWith(ListSwitches)
    /\ result.ok
    /\ Len(result.val.databanks) = 1
    /\ pubmed_article.MedlineCitation.Article.DataBankList.DataBank[1].DataBankName = <<"C">>
    /\ result.val.databanks[1].name = Element(<<"C">>)

----------------------------------------------------------------------------
(* The joined items of sub-records with a missing field *)

\* A sub-record field as the claim renders it in a joined item: "" for an
\* attribute that is not there and for an element without text
MissingAsEmpty(x) == IF x \in {Absent, None} THEN EmptyStr ELSE x

TheSupplMeshNames == pubmed_article.MedlineCitation.SupplMeshList.SupplMeshName

TheGrants == pubmed_article.MedlineCitation.Article.GrantList.Grant

ThePubMedPubDates == pubmed_article.PubmedData.History.PubMedPubDate

\* A sub-record of the citation lacks one of the fields that the claim names
SubFieldMissing ==
    \/ \E i \in 1..Len(TheELocationIDs) : TheELocationIDs[i].EIdType = Absent
    \/ \E i \in 1..Len(ThePubMedPubDates) : ThePubMedPubDates[i].PubStatus = Absent
    \/ \E i \in 1..Len(TheSupplMeshNames) :
          \/ Absent \in {TheSupplMeshNames[i].Type, TheSupplMeshNames[i].UI}
          \/ TheSupplMeshNames[i].text = None
    \/ \E i \in 1..Len(TheGrants) :
          None \in {TheGrants[i].GrantID, TheGrants[i].Acronym, TheGrants[i].Country,
                    TheGrants[i].Agency}

\* Nothing else is wrong with the sub-records: every ELocationID has text and
\* every PubMedPubDate a Year with text
RestWellFormed ==
    /\ \A i \in 1..Len(TheELocationIDs) : TheELocationIDs[i].text # None
    /\ \A i \in 1..Len(ThePubMedPubDates) : ThePubMedPubDates[i].Year \notin {Absent, None}

\* The joined strings with "" in the place of every missing field
JoinedWithEmptyFields(v) ==
    /\ v.elocation_ids =
          join(<<";">>, [i \in 1..Len(TheELocationIDs) |->
                           MissingAsEmpty(TheELocationIDs[i].EIdType) \o <<"|">>
                           \o strip(TheELocationIDs[i].text)])
    /\ v.history_dates =
          join(<<";">>, [i \in 1..Len(ThePubMedPubDates) |->
                           MissingAsEmpty(ThePubMedPubDates[i].PubStatus) \o <<"|">>
                           \o get_date_info(ThePubMedPubDates[i], config.year_info_only,
                                            config.parse_time).val])
    /\ v.supplementary_concepts =
          join(<<";">>, [i \in 1..Len(TheSupplMeshNames) |->
                           MissingAsEmpty(TheSupplMeshNames[i].Type) \o <<"|">>
                           \o MissingAsEmpty(TheSupplMeshNames[i].UI) \o <<"|">>
                           \o MissingAsEmpty(TheSupplMeshNames[i].text)])
    /\ v.grant_ids =
          join(<<";">>, [i \in 1..Len(TheGrants) |->
                           MissingAsEmpty(TheGrants[i].GrantID) \o <<"|">>
                           \o MissingAsEmpty(TheGrants[i].Acronym) \o <<"|">>
                           \o MissingAsEmpty(TheGrants[i].Country) \o <<"|">>
                           \o MissingAsEmpty(TheGrants[i].Agency)])

\* C25 (as claimed): in string mode, when a sub-record lacks a field (an
\* ELocationID without EIdType, a PubMedPubDate without PubStatus, a
\* SupplMeshName without Type, UI or text, a Grant with an empty GrantID,
\* Acronym, Country or Agency), the extraction returns and the missing field
\* is "" inside its joined item, which keeps all its "|" delimiters.
C25_MissingSubFieldEmpty ==
    (/\ called = "parse_article_info"
     /\ config = DefaultConfig
     /\ pubmed_article \in ListArticles
     /\ SubFieldMissing
     /\ RestWellFormed)
    => /\ result.ok
       /\ JoinedWithEmptyFields(result.val)

\* The joined strings are as claimed when no field is missing, and when the
\* only missing fields are Grant children that are not there at all
JoinedWhenNothingMissing ==
    (/\ called = "parse_article_info"
     /\ config = DefaultConfig
     /\ pubmed_article \in ListArticles
     /\ ~SubFieldMissing
     /\ RestWellFormed
     /\ result.ok)
    => JoinedWithEmptyFields(result.val)

\* Each of the four kinds of missing field has made the extraction fail
MissingSubFieldFails ==
    /\ called = "parse_article_info"
    /\ config = DefaultConfig
    /\ pubmed_article \in ListArticles
    /\ SubFieldMissing
    /\ RestWellFormed
    /\ ~result.ok

MissingEIdTypeFails ==
    MissingSubFieldFails /\ Len(TheELocationIDs) = 1

MissingPubStatusFails ==
    MissingSubFieldFails /\ Len(ThePubMedPubDates) = 1

MissingConceptTypeFails ==
    MissingSubFieldFails /\ Len(TheSupplMeshNames) = 1

EmptyGrantIDFails ==
    MissingSubFieldFails /\ Len(TheGrants) = 1

\* String mode fails on every citation with such a missing field
MissingSubFieldAlwaysFails ==
    (/\ called = "parse_article_info"
     /\ config = DefaultConfig
     /\ pubmed_article \in ListArticles
     /\ SubFieldMissing
     /\ RestWellFormed)
    => ~result.ok

----------------------------------------------------------------------------
(* One citation with an abstract: parse_article_info under nlm_category *)

MaxSections == 2

SectionSamples ==
    {[Label |-> <<"B">>, NlmCategory |-> <<"M">>, text |-> <<"t", " ">>, children |-> <<>>],
     [Label |-> <<"C">>, NlmCategory |-> UNASSIGNED, text |-> <<"u">>,
      children |-> <<[text |-> <<"i">>, tail |-> <<" ", "v">>]>>],
     [Label |-> UNASSIGNED, NlmCategory |-> <<"M">>, text |-> None,
      children |-> <<[text |-> <<"i">>, tail |-> None]>>],
     [Label |-> Absent, NlmCategory |-> Absent, text |-> <<"w">>, children |-> <<>>],
     [Label |-> <<"B">>, NlmCategory |-> <<"M">>, text |-> None, children |-> <<>>]}

Abstracts ==
    {NoAbstract,
     [NoAbstract EXCEPT !.present = TRUE],
     [NoAbstract EXCEPT !.present = TRUE, !.text = <<" ", "p">>,
                        !.children = <<[text |-> <<"c">>, tail |-> <<" ">>]>>]}
    \cup {[NoAbstract EXCEPT !.present = TRUE, !.AbstractText = sections] :
            sections \in SeqUpTo(SectionSamples, MaxSections)}

Titles ==
    {NoMixedElement,
     [present |-> TRUE, text |-> None, children |-> <<>>],
     [present |-> TRUE, text |-> <<" ", "T">>,
      children |-> <<[text |-> <<"i">>, tail |-> <<" ", "e", "\n">>]>>]}

AbstractArticles ==
    {[BasePubmedArticle EXCEPT !.MedlineCitation.Article.Abstract = a] : a \in Abstracts}
    \cup {[BasePubmedArticle EXCEPT !.MedlineCitation.Article.ArticleTitle = t] :
            t \in Titles}
    \cup {[BasePubmedArticle EXCEPT !.MedlineCitation.Article.VernacularTitle = t] :
            t \in Titles}

InitAbstract ==
    /\ tree = EmptyTree
    /\ pubmed_article \in AbstractArticles
    /\ date_xml = BaseDate
    /\ config \in {[DefaultConfig EXCEPT !.nlm_category = c] : c \in BOOLEAN}
    /\ called = "none"
    /\ result = Return(<<>>)

NextAbstract == Call_parse_article_info

SpecAbstract == InitAbstract /\ [][NextAbstract]_vars

TheAbstract == pubmed_article.MedlineCitation.Article.Abstract

\* The flattened and trimmed text of an element
FlatText(node) == strip(stringify_children(node))

\* The label of a section under the configuration at hand, "" without the
\* attribute
LabelOf(section) ==
    LET attribute == IF config.nlm_category THEN section.NlmCategory ELSE section.Label
    IN  IF attribute = Absent THEN EmptyStr ELSE attribute

\* What a section contributes to the abstract of several sections
SectionItems(section) ==
    IF LabelOf(section) # UNASSIGNED
    THEN << <<"\n">>, LabelOf(section), FlatText(section) >>
    ELSE << FlatText(section) >>

\* The abstract as the claim describes it
AbstractAsClaimed ==
    LET sections == TheAbstract.AbstractText IN
    IF Len(sections) >= 2
    THEN strip(join(<<"\n">>, Flatten([i \in 1..Len(sections) |-> SectionItems(sections[i])])))
    ELSE IF Len(sections) = 1 THEN FlatText(sections[1])
    ELSE IF TheAbstract.present THEN FlatText(TheAbstract)
    ELSE EmptyStr

----------------------------------------------------------------------------
(* The keys of the records *)

\* The keys of the record of the well-formed citation in the default
\* configuration, where author_list is off
ArticleKeysAuthorListOff == DOMAIN parse_article_info(BasePubmedArticle, DefaultConfig).val

\* The keys that an article record has under the configuration at hand
ArticleKeysAsClaimed ==
    IF config.author_list THEN ArticleKeysAuthorListOff \ {"affiliations"}
    ELSE ArticleKeysAuthorListOff

\* C27: every article record has the same keys, whatever the citation and
\* the configuration, but for affiliations, which is a key iff author_list is
\* off; every delete record has the keys of an article record made with
\* author_list off; so with author_list off all records of an output have
\* one key set.
C27_KeySets ==
    (called \in {"parse_medline_xml", "parse_medline_xml again"} /\ result.ok)
    => LET n == Len(tree.PubmedArticle) IN
       /\ "affiliations" \in ArticleKeysAuthorListOff
       /\ \A i \in 1..n :
             /\ DOMAIN result.val[i] = ArticleKeysAsClaimed
             /\ "affiliations" \in DOMAIN result.val[i] <=> ~config.author_list
       /\ \A j \in 1..Len(tree.DeleteCitation) :
             DOMAIN result.val[n + j] = ArticleKeysAuthorListOff
       /\ ~config.author_list
             => \A i, j \in 1..Len(result.val) : DOMAIN result.val[i] = DOMAIN result.val[j]

\* C27 witness: with author_list on, a document with two different
\* citations and a delete notice has been parsed; only the delete record has
\* the key affiliations.
C27_Witness ==
    /\ called = "parse_medline_xml"
    /\ config = ConfigWith({"author_list"})
    /\ tree.PubmedArticle = <<RichCitation, BasePubmedArticle>>
    /\ tree.DeleteCitation = << <<"8">> >>
    /\ result.ok
    /\ "affiliations" \notin DOMAIN result.val[1]
    /\ "affiliations" \in DOMAIN result.val[3]
    /\ Cardinality(DOMAIN result.val[3]) = 40

\* The keys of the record of one citation, over the citations and the
\* configurations of the list switches
ArticleKeySet ==
    (called = "parse_article_info" /\ result.ok)
    => DOMAIN result.val = ArticleKeysAsClaimed

============================================================================
